---- MODULE Spec2Model ----
(***************************************************************************)
(* Gesture-to-control pipeline of the Cosmic Particles application         *)
(* (app.js, src/filters/smoothing.js, src/ai/enhanced-detection.js,        *)
(* src/ai/gesture-classifier.js).                                          *)
(*                                                                         *)
(* Confidences, probabilities and intensities are exact decimals, in       *)
(* hundredths (0.35 is 35): sums and comparisons are those of the decimal  *)
(* values, which differ from the double-precision ones only where a        *)
(* decimal sum meets a threshold exactly (0.4 - 0.05 <= 0.35 holds here    *)
(* and not in doubles).  The filters compute in floating point with a      *)
(* short significand.  Wrist positions of the swipe window are in          *)
(* thousandths of the frame width, times are in milliseconds.              *)
(*                                                                         *)
(* processGestures touches several independent groups of globals.  Each    *)
(* specification below runs the detection tick on one group:               *)
(*   Spec        gesture label, AI fusion and the gesture state machine    *)
(*   SpecFilter  the One Euro filter bank                                  *)
(*   SpecSteady  the One Euro filter bank under a still hand               *)
(*   SpecSwipe   the swipe tracking window                                 *)
(*   SpecFusion  EnhancedGestureDetector.detect as a function              *)
(*   SpecRules   the rule-based decision tree as a function                *)
(*   SpecControl the control channels (smoothed*, rotation target)         *)
(*   SpecLoop    the animation frames: animate, detectHands and its        *)
(*               throttle, visibility, the camera; the tick it runs is     *)
(*               the one on the control channels                           *)
(*   SpecFingers countExtendedFingers, detectFist, detectPinch and         *)
(*               detectPeaceSign as functions of one hand                  *)
(*   SpecCommit  commitGestureState as a function                          *)
(*   SpecUnload  the beforeunload listener                                 *)
(*   SpecRotation the rotation target over detection ticks                 *)
(*   SpecSustain one sustained label given to commitGestureState           *)
(*   SpecMixed   changing labels given to commitGestureState               *)
(*   SpecSlots   filter bank and finger-force history per hand slot        *)
(*   SpecWorker  the gesture worker's message handler                      *)
(*   SpecCamera  the start button, getUserMedia and loadeddata             *)
(*   SpecChannels the control channels under held hand poses               *)
(*   SpecMemo    the hand-scale memo over animation frames                 *)
(***************************************************************************)
EXTENDS Integers, Sequences, FiniteSets, TLC

VARIABLES
    \* ---- gesture label / state machine (app.js) ----
    gestureState,             \* { active, confidence }
    currentGesture,           \* module-level label written by processGestures
    gestureDetectionEnabled,
    aiEnabled,
    enhancedDetector,         \* "null" object or { isInitialized, useAI, isReady }
    aiLoad,                   \* position of initAI: "idle", "loading", "done"
    pendingDetect,            \* promises of enhancedDetector.detect still in flight
    unhandledRejection,       \* a rejected promise had no handler
    \* ---- history of the last commitGestureState calls ----
    lastLabel,                \* label passed to the last call ("" before the first)
    prevAgreed,               \* the call before the last carried the then active label
    switched,                 \* the last call changed gestureState.active
    lastRule,                 \* rule-based label of the last tick ("" without hands)
    aiSeenByTick,             \* AI label found in currentGesture when the last tick began
    aiFailure,                \* kind of the last external-classifier failure, or ""
    \* ---- One Euro filter bank ----
    landmarkFilterBank,       \* key -> OneEuroFilter state
    filterOut,                \* slot -> value returned by the last filterLandmarks
    filterIn,                 \* slot -> raw value given to the last filterLandmarks
    filterFresh,              \* slot -> the key was created by the last filterLandmarks
    handsSeen,                \* hands.length of the last detection tick
    filterClock,              \* performance.now() of the last detection tick
    lastGap,                  \* "no": the last tick had hands; else it had none and the
                              \* gap it belongs to dropped filters ("cleared") or not ("empty")
    gapBefore,                \* lastGap of the tick before the last one
    \* ---- swipe tracking ----
    swipeStartX,
    swipeStartTime,
    lastSwipeTime,
    prevHandX,
    currentShapeIndex,        \* index into shapes
    swipeClock,               \* Date.now()
    swipeCall,                \* the last detectSwipe call: what it saw and returned
    swipeTick,                \* the last tick: "five", "other" (another gesture), "idle" or ""
    lastSwipe,                \* direction of the last swipe event, time since the one before
    traj,                     \* the rightward five-finger trajectory being followed
    \* ---- a function applied to drawn arguments ----
    args,                     \* the arguments drawn
    returned,                 \* what the function returned
    called,                   \* the function has been applied
    \* ---- control channels written by processGestures ----
    smoothed,                 \* the smoothed* globals, one field per channel
    targetRotationSpeed,
    prevFistAngle,            \* palm twist angle of the last rotation sample, or "null"
    freezeTimeTarget,
    prevTips,                 \* prevTips.length
    controlTicks,             \* number of processGestures calls so far
    lastTick,                 \* the last processGestures call: its branch, the channels,
                              \* twist sample and rotation target before it, the targets
                              \* it smoothed towards, and rotationGestureActive
    \* ---- frame loop: detectHands, animate, visibility ----
    timeNow,                  \* performance.now() of the current frame, in ms
    isPageVisible,
    webcam,                   \* "off", "denied" or "streaming" (detectHands was started)
    detectScheduled,          \* a requestAnimationFrame(detectHands) is outstanding
    lastDetectionTime,
    lastVideoTime,            \* video frame seen by the last detection (-1 at first)
    videoTime,                \* video.currentTime, as a frame number
    clockOldTime,             \* THREE.Clock: time of the last getDelta
    uTime,
    uFreezeTime,
    smoothedRotationSpeed,
    cosmicRotation,
    lastFrame,                \* the last frame callback: which one, what it saw and did
    \* ---- page unload ----
    page,                     \* beforeunload: whether it ran, what it stopped and disposed
    \* ---- finger force fields ----
    fingerVelocityHistory,    \* Map: <<handIndex, tipIndex>> -> last tip position
    fingerForce,              \* this tick's applyFingerForceFields call: velocity terms and force.x
    \* ---- gesture worker ----
    worker,                   \* detector, closing flag, the messages received and the replies posted
    \* ---- camera start ----
    camera,                   \* start button, pending camera requests, loadeddata listeners, pending detectHands callbacks
    \* ---- hand-scale memo ----
    memoCache                 \* frameId, the handScale Map in insertion order, and this tick's getHandScale calls

gestureVars == <<gestureState, currentGesture, gestureDetectionEnabled, aiEnabled,
                 enhancedDetector, aiLoad, pendingDetect, unhandledRejection,
                 lastLabel, prevAgreed, switched, lastRule, aiSeenByTick, aiFailure>>
filterVars == <<landmarkFilterBank, filterOut, filterIn, filterFresh, handsSeen,
                filterClock, lastGap, gapBefore>>
swipeVars == <<swipeStartX, swipeStartTime, lastSwipeTime, prevHandX, currentShapeIndex,
               swipeClock, swipeCall, swipeTick, lastSwipe, traj>>
callVars == <<args, returned, called>>
controlVars == <<smoothed, targetRotationSpeed, prevFistAngle, freezeTimeTarget, prevTips,
                 controlTicks, lastTick>>
loopVars == <<timeNow, isPageVisible, webcam, detectScheduled, lastDetectionTime, lastVideoTime,
              videoTime, clockOldTime, uTime, uFreezeTime, smoothedRotationSpeed,
              cosmicRotation, lastFrame>>
unloadVars == <<page>>
forceVars == <<fingerVelocityHistory, fingerForce>>
workerVars == <<worker>>
cameraVars == <<camera>>
memoVars == <<memoCache>>
vars == <<gestureVars, filterVars, swipeVars, callVars, controlVars, loopVars, unloadVars, forceVars,
          workerVars, cameraVars, memoVars>>

Min(a, b) == IF a < b THEN a ELSE b
Max(a, b) == IF a > b THEN a ELSE b
Abs(a) == IF a < 0 THEN -a ELSE a

(***************************************************************************)
(* CONFIG.gestures.modeThresholds, in hundredths.                          *)
(***************************************************************************)
ModeEnter == 60
ExitAtEnter == ModeEnter
ModeExit == 35
ModeDecay == 5
ConfidenceOne == 100

(***************************************************************************)
(* gestureState = { active: 'Auto Mode', confidence: 0.4 }                 *)
(***************************************************************************)
InitialGestureState == [active |-> "Auto Mode", confidence |-> 40]


SwitchToCollapse(gs, label, intensity) ==
    IF gs.active = label
    THEN [active |-> gs.active,
          confidence |-> Min(ConfidenceOne, gs.confidence + intensity)]
    ELSE LET decayed == Max(0, gs.confidence - ModeDecay)
         IN  IF decayed <= ModeExit
             THEN [active |-> "Collapse", confidence |-> ModeEnter + intensity]
             ELSE [active |-> gs.active, confidence |-> decayed]

ExitTestBeforeDecay(gs, label, intensity) ==
    IF gs.active = label
    THEN [active |-> gs.active,
          confidence |-> Min(ConfidenceOne, gs.confidence + intensity)]
    ELSE IF gs.confidence <= ModeExit
         THEN [active |-> label, confidence |-> ModeEnter + intensity]
         ELSE [active |-> gs.active, confidence |-> Max(0, gs.confidence - ModeDecay)]

(***************************************************************************)
(* commitGestureState(label, intensity): the new gestureState.             *)
(***************************************************************************)
CommitGestureState(gs, label, intensity) ==
    IF gs.active = label
    THEN [active |-> gs.active,
          confidence |-> Min(ConfidenceOne, gs.confidence + intensity)]
    ELSE LET decayed == Max(0, gs.confidence - ModeDecay)
         IN  IF decayed <= ModeExit
             THEN [active |-> label, confidence |-> ModeEnter + intensity]
             ELSE [active |-> gs.active, confidence |-> decayed]

(***************************************************************************)
(* gestureEnergy = min(0.3, 0.05 + movement*0.01 + pulse*0.05 + wind*0.02) *)
(* `extra` is the sum of the three non-negative terms, in hundredths.      *)
(***************************************************************************)
GestureEnergyUncapped(extra) == 5 + extra
GestureEnergy(extra) == Min(30, 5 + extra)
EnergyExtras == {0, 40}
DisabledIntensity == 10
NoHandsIntensity == 5

(***************************************************************************)
(* The rule-based decision tree of processGestures on the primary hand.    *)
(* swipeDirection is the value detectSwipe returned ("" for null); it is   *)
(* read only when fingerCount = 5.  Labels are written without the emoji   *)
(* they start with in the source; the AI prefix stands for the robot face. *)
(***************************************************************************)
FingersLabel(fingerCount) == ToString(fingerCount) \o " Fingers"

PinchBeforeFist(fingerCount, isFist, isPinching, isPeaceSign, swipeDirection) ==
    IF fingerCount = 5
    THEN IF swipeDirection # ""
         THEN [name |-> IF swipeDirection = "right" THEN "Swipe Right" ELSE "Swipe Left",
               confidence |-> 90]
         ELSE [name |-> "Rotate + Expand", confidence |-> 85]
    ELSE IF isPinching
         THEN [name |-> "Pinch (Attract)", confidence |-> 85]
         ELSE IF isFist
              THEN [name |-> "Collapse", confidence |-> 90]
              ELSE IF isPeaceSign
                   THEN [name |-> "Peace (Pulse)", confidence |-> 85]
                   ELSE IF fingerCount = 1
                        THEN [name |-> "One Finger (Collapse)", confidence |-> 80]
                        ELSE [name |-> FingersLabel(fingerCount), confidence |-> 70]

RuleBasedGesture(fingerCount, isFist, isPinching, isPeaceSign, swipeDirection) ==
    IF fingerCount = 5
    THEN IF swipeDirection # ""
         THEN [name |-> IF swipeDirection = "right" THEN "Swipe Right" ELSE "Swipe Left",
               confidence |-> 90]
         ELSE [name |-> "Rotate + Expand", confidence |-> 85]
    ELSE IF isFist
         THEN [name |-> "Collapse", confidence |-> 90]
         ELSE IF isPinching
              THEN [name |-> "Pinch (Attract)", confidence |-> 85]
              ELSE IF isPeaceSign
                   THEN [name |-> "Peace (Pulse)", confidence |-> 85]
                   ELSE IF fingerCount = 1
                        THEN [name |-> "One Finger (Collapse)", confidence |-> 80]
                        ELSE [name |-> FingersLabel(fingerCount), confidence |-> 70]

FingerCounts == 0 .. 5
SwipeDirections == {"", "left", "right"}

(***************************************************************************)
(* GestureClassifier.classify(landmarks, confidence).  The outcome is       *)
(* "null", "throw" (the promise rejects) or a value {gesture, confidence}. *)
(* featureError: extractFeatures throws; predictError: model.predict or    *)
(* prediction.data() throws; maxProb, gestureIndex: the smoothed maximum.  *)
(***************************************************************************)
Gestures == <<"fist", "open", "pinch", "peace", "point", "swipe_left", "swipe_right">>
NullOutcome == [kind |-> "null", gesture |-> "", confidence |-> 0]
ThrowOutcome == [kind |-> "throw", gesture |-> "", confidence |-> 0]

Classify(isReady, landmarksEmpty, featureError, predictError, maxProb, gestureIndex, confidence) ==
    IF ~isReady THEN NullOutcome
    ELSE IF landmarksEmpty THEN NullOutcome
    ELSE IF featureError THEN ThrowOutcome
    ELSE IF predictError THEN NullOutcome
    ELSE IF maxProb < confidence
         THEN [kind |-> "value", gesture |-> "unknown", confidence |-> maxProb]
         ELSE [kind |-> "value", gesture |-> Gestures[gestureIndex],
               confidence |-> maxProb]

(***************************************************************************)
(* EnhancedGestureDetector.detect(mediapipeResult, ruleBasedGesture).      *)
(***************************************************************************)
ClassifyThreshold == 75
AcceptThreshold == 80

RuleBasedResult(rb) ==
    [settled |-> "fulfilled", gesture |-> rb.name, confidence |-> rb.confidence,
     source |-> "rule-based"]
RejectedResult ==
    [settled |-> "rejected", gesture |-> "", confidence |-> 0, source |-> ""]

AcceptsAtThreshold(aiGesture) ==
    aiGesture.kind = "value" /\ aiGesture.confidence >= AcceptThreshold
Accepts(aiGesture) == aiGesture.kind = "value" /\ aiGesture.confidence > AcceptThreshold

Detect(det, landmarksEmpty, rb, aiGesture) ==
    IF ~det.isInitialized THEN RuleBasedResult(rb)
    ELSE IF ~det.useAI \/ landmarksEmpty THEN RuleBasedResult(rb)
    ELSE IF aiGesture.kind = "throw" THEN RejectedResult
    ELSE IF Accepts(aiGesture)
         THEN [settled |-> "fulfilled", gesture |-> aiGesture.gesture,
               confidence |-> aiGesture.confidence, source |-> "AI"]
         ELSE RuleBasedResult(rb)


(***************************************************************************)
(* The .then/.catch pair processGestures attaches to detect's promise.     *)
(***************************************************************************)
AIShowThreshold == 85
AILabel(gesture) == "AI " \o gesture

AICallback(aiResult, gesture) ==
    IF aiResult.settled = "fulfilled" /\ aiResult.source = "AI"
       /\ aiResult.confidence > AIShowThreshold
    THEN AILabel(aiResult.gesture)
    ELSE gesture

NoCatch == FALSE
CatchesAIRejection == TRUE

(***************************************************************************)
(* Initial values of the gesture globals (app.js 387-397, 1599-1615).      *)
(***************************************************************************)
NullDetector ==
    [exists |-> FALSE, isInitialized |-> FALSE, useAI |-> FALSE, isReady |-> FALSE]

InitGesture ==
    /\ gestureState = InitialGestureState
    /\ currentGesture = "None"
    /\ gestureDetectionEnabled = TRUE
    /\ aiEnabled = FALSE
    /\ enhancedDetector = NullDetector
    /\ aiLoad = "idle"
    /\ pendingDetect = <<>>
    /\ unhandledRejection = FALSE
    /\ lastLabel = ""
    /\ prevAgreed = FALSE
    /\ switched = FALSE
    /\ lastRule = ""
    /\ aiSeenByTick = ""
    /\ aiFailure = ""

(***************************************************************************)
(* Bounds and inputs of the gesture specification.  SampleFrames holds a   *)
(* frame without hands and one frame for each kind of rule-based label.    *)
(***************************************************************************)
MaxPending == 1
MaxGestureIndex == 1
MaxProbs == {70, 80, 81, 85, 86}

Frame(hands, fingerCount, isFist, isPinching, isPeaceSign, swipeDirection) ==
    [hands |-> hands, fingerCount |-> fingerCount, isFist |-> isFist,
     isPinching |-> isPinching, isPeaceSign |-> isPeaceSign,
     swipeDirection |-> swipeDirection]

SampleFrames ==
    { Frame(0, 0, FALSE, FALSE, FALSE, ""),
      Frame(1, 5, FALSE, FALSE, FALSE, ""),
      Frame(2, 0, TRUE, FALSE, FALSE, ""),
      Frame(1, 3, FALSE, FALSE, FALSE, "") }

(***************************************************************************)
(* Click on the gesture toggle button.                                     *)
(***************************************************************************)
ToggleGestures ==
    /\ gestureDetectionEnabled' = ~gestureDetectionEnabled
    /\ UNCHANGED <<gestureState, currentGesture, aiEnabled, enhancedDetector, aiLoad,
                   pendingDetect, unhandledRejection, lastLabel, prevAgreed, switched,
                   lastRule, aiSeenByTick, aiFailure>>
    /\ UNCHANGED <<filterVars, swipeVars, callVars, controlVars, loopVars, unloadVars, forceVars, workerVars, cameraVars, memoVars>>

(***************************************************************************)
(* initAI up to its await: the detector object exists, the model loads.    *)
(***************************************************************************)
InitAI ==
    /\ aiLoad = "idle"
    /\ aiLoad' = "loading"
    /\ enhancedDetector' = [NullDetector EXCEPT !.exists = TRUE]
    /\ UNCHANGED <<gestureState, currentGesture, gestureDetectionEnabled, aiEnabled,
                   pendingDetect, unhandledRejection, lastLabel, prevAgreed, switched,
                   lastRule, aiSeenByTick, aiFailure>>
    /\ UNCHANGED <<filterVars, swipeVars, callVars, controlVars, loopVars, unloadVars, forceVars, workerVars, cameraVars, memoVars>>

(***************************************************************************)
(* initAI after the await.  loadResult: "loaded" (loadModel returned       *)
(* true), "missing" (loadModel caught the error and returned false),       *)
(* "throws" (the catch of EnhancedGestureDetector.init).                   *)
(***************************************************************************)
LoadResults == {"loaded", "missing", "throws"}

InitAIDone(loadResult) ==
    /\ aiLoad = "loading"
    /\ aiLoad' = "done"
    /\ LET loaded == (loadResult = "loaded")
       IN  /\ enhancedDetector' = [exists |-> TRUE, isInitialized |-> TRUE,
                                   useAI |-> loaded, isReady |-> loaded]
           /\ aiEnabled' = loaded
           /\ aiFailure' = IF loaded THEN aiFailure ELSE loadResult
    /\ UNCHANGED <<gestureState, currentGesture, gestureDetectionEnabled,
                   pendingDetect, unhandledRejection, lastLabel, prevAgreed, switched,
                   lastRule, aiSeenByTick>>
    /\ UNCHANGED <<filterVars, swipeVars, callVars, controlVars, loopVars, unloadVars, forceVars, workerVars, cameraVars, memoVars>>

(***************************************************************************)
(* processGestures(result) on the gesture globals.  hands: hands.length;   *)
(* the flags are what countExtendedFingers, detectFist, detectPinch,       *)
(* detectPeaceSign and detectSwipe return for hands[0].  currentGesture is *)
(* reset to 'None' first, set by the branch taken and then committed.      *)
(***************************************************************************)
AILabels == {AILabel(Gestures[i]) : i \in 1 .. Len(Gestures)}

Committed(label, intensity) ==
    /\ currentGesture' = label
    /\ gestureState' = CommitGestureState(gestureState, label, intensity)
    /\ lastLabel' = label
    /\ prevAgreed' = (lastLabel = gestureState.active)
    /\ switched' = (gestureState'.active # gestureState.active)
    /\ aiSeenByTick' = IF currentGesture \in AILabels THEN currentGesture ELSE ""

ProcessGestures(hands, fingerCount, isFist, isPinching, isPeaceSign, swipeDirection, extra) ==
    IF ~gestureDetectionEnabled
    THEN /\ Committed("Gestures Disabled", DisabledIntensity)
         /\ lastRule' = ""
         /\ UNCHANGED pendingDetect
    ELSE IF hands = 0
    THEN /\ Committed(IF aiEnabled THEN "AI Auto Mode" ELSE "Auto Mode",
                      NoHandsIntensity)
         /\ lastRule' = ""
         /\ UNCHANGED pendingDetect
    ELSE LET ruleBasedGesture == RuleBasedGesture(fingerCount, isFist, isPinching,
                                                  isPeaceSign, swipeDirection)
         IN  /\ IF enhancedDetector.exists /\ aiEnabled
                THEN /\ Len(pendingDetect) < MaxPending
                     /\ pendingDetect' = Append(pendingDetect, ruleBasedGesture)
                ELSE UNCHANGED pendingDetect
             /\ Committed(ruleBasedGesture.name, GestureEnergy(extra))
             /\ lastRule' = ruleBasedGesture.name

DetectionTick ==
    /\ \E f \in SampleFrames, extra \in EnergyExtras :
            ProcessGestures(f.hands, f.fingerCount, f.isFist, f.isPinching,
                            f.isPeaceSign, f.swipeDirection, extra)
    /\ UNCHANGED <<gestureDetectionEnabled, aiEnabled, enhancedDetector, aiLoad,
                   unhandledRejection, aiFailure>>
    /\ UNCHANGED <<filterVars, swipeVars, callVars, controlVars, loopVars, unloadVars, forceVars, workerVars, cameraVars, memoVars>>

(***************************************************************************)
(* A promise returned by enhancedDetector.detect settles and the           *)
(* callbacks attached in processGestures run.                              *)
(***************************************************************************)
RemoveAt(seq, i) == SubSeq(seq, 1, i - 1) \o SubSeq(seq, i + 1, Len(seq))

ClassifyOutcomes(isReady) ==
    { Classify(isReady, FALSE, featureError, predictError, maxProb, gestureIndex,
               ClassifyThreshold) :
        featureError \in BOOLEAN, predictError \in BOOLEAN, maxProb \in MaxProbs,
        gestureIndex \in 1 .. MaxGestureIndex }

AIResolve(i, aiGesture) ==
    /\ i \in 1 .. Len(pendingDetect)
    /\ LET aiResult == Detect(enhancedDetector, FALSE, pendingDetect[i], aiGesture)
       IN  /\ currentGesture' = AICallback(aiResult, currentGesture)
           /\ unhandledRejection' =
                  (unhandledRejection
                   \/ (aiResult.settled = "rejected" /\ ~CatchesAIRejection))
           /\ aiFailure' = IF aiGesture.kind \in {"null", "throw"} THEN aiGesture.kind
                           ELSE aiFailure
    /\ pendingDetect' = RemoveAt(pendingDetect, i)
    /\ UNCHANGED <<gestureState, gestureDetectionEnabled, aiEnabled, enhancedDetector,
                   aiLoad, lastLabel, prevAgreed, switched, lastRule, aiSeenByTick>>
    /\ UNCHANGED <<filterVars, swipeVars, callVars, controlVars, loopVars, unloadVars, forceVars, workerVars, cameraVars, memoVars>>

AISettle ==
    \E i \in 1 .. MaxPending, aiGesture \in ClassifyOutcomes(enhancedDetector.isReady) :
        AIResolve(i, aiGesture)

(***************************************************************************)
(* Floating-point arithmetic.  JavaScript numbers are binary floating      *)
(* point: every operation returns the representable number nearest to the  *)
(* exact result, ties to even.  A number is <<m, e>>, standing for         *)
(* m * 2^e, with m = 0 or 2^(MantissaBits-1) <= |m| < 2^MantissaBits.      *)
(* The significand is MantissaBits wide instead of 53; exponents are       *)
(* unbounded (no overflow or underflow occurs in the ranges used).         *)
(***************************************************************************)
MantissaBits == 6

RECURSIVE BitLen(_)
BitLen(n) == IF n = 0 THEN 0 ELSE 1 + BitLen(n \div 2)

FlZero == <<0, 0>>

(* The number nearest to n * 2^e. *)
Round(n, e) ==
    IF n = 0 THEN FlZero
    ELSE LET a == Abs(n)
             sgn == IF n < 0 THEN -1 ELSE 1
             len == BitLen(a)
         IN  IF len <= MantissaBits
             THEN <<sgn * a * 2^(MantissaBits - len), e - (MantissaBits - len)>>
             ELSE LET s == len - MantissaBits
                      q == a \div 2^s
                      r == a % 2^s
                      half == 2^(s - 1)
                      m == IF r > half \/ (r = half /\ q % 2 = 1) THEN q + 1 ELSE q
                  IN  IF m = 2^MantissaBits
                      THEN <<sgn * 2^(MantissaBits - 1), e + s + 1>>
                      ELSE <<sgn * m, e + s>>

(* The number nearest to n / d, for integers n >= 0 and d > 0. *)
Ratio(n, d) ==
    LET k == MantissaBits + 2 + BitLen(d)
        q == (n * 2^k) \div d
        sticky == IF (n * 2^k) % d = 0 THEN 0 ELSE 1
    IN  Round(2 * q + sticky, 0 - (k + 1))

FlNeg(x) == <<0 - x[1], x[2]>>
FlAbs(x) == <<Abs(x[1]), x[2]>>

FlMul(x, y) == Round(x[1] * y[1], x[2] + y[2])

FlDiv(x, y) ==
    IF x[1] = 0 THEN FlZero
    ELSE LET r == Ratio(Abs(x[1]), Abs(y[1]))
             sgn == IF (x[1] < 0) = (y[1] < 0) THEN 1 ELSE -1
         IN  <<sgn * r[1], r[2] + x[2] - y[2]>>

FlAdd(x, y) ==
    IF x[1] = 0 THEN y
    ELSE IF y[1] = 0 THEN x
    ELSE IF x[2] - y[2] > MantissaBits + 1 THEN x
    ELSE IF y[2] - x[2] > MantissaBits + 1 THEN y
    ELSE LET e == Min(x[2], y[2])
         IN  Round(x[1] * 2^(x[2] - e) + y[1] * 2^(y[2] - e), e)

FlSub(x, y) == FlAdd(x, FlNeg(y))
FlLess(x, y) == FlSub(x, y)[1] < 0
FlMax(x, y) == IF FlLess(x, y) THEN y ELSE x
FlMin(x, y) == IF FlLess(y, x) THEN y ELSE x

FlOne == Round(1, 0)
FlTwo == Round(2, 0)
MathPI == Ratio(22, 7)

(***************************************************************************)
(* One Euro filter (app.js 334-385, src/filters/smoothing.js).  Values,    *)
(* frequencies, cutoffs and alphas are floating-point numbers.  A          *)
(* timestamp is performance.now() in whole milliseconds (-1 stands for     *)
(* null); timestampMs / 1000 and the difference of two timestamps are      *)
(* taken as the number nearest to the exact difference in seconds.         *)
(***************************************************************************)
FiltersFreq == Round(60, 0)
FiltersMinCutoff == FlOne
FiltersBeta == Ratio(2, 25)
FiltersDCutoff == FlOne

SetAlpha(alpha) == FlMax(FlZero, FlMin(FlOne, alpha))

Alpha(freq, cutoff) ==
    LET te == FlDiv(FlOne, freq)
        tau == FlDiv(FlOne, FlMul(FlMul(FlTwo, MathPI), cutoff))
    IN  FlDiv(FlOne, FlAdd(FlOne, FlDiv(tau, te)))

AlreadyInitialized(alpha) ==
    [alpha |-> SetAlpha(alpha), initialized |-> TRUE, prev |-> FlZero]
NewLowPassFilter(alpha) ==
    [alpha |-> SetAlpha(alpha), initialized |-> FALSE, prev |-> FlZero]

LowPassResult(lp, value) ==
    IF lp.initialized
    THEN FlAdd(FlMul(lp.alpha, value), FlMul(FlSub(FlOne, lp.alpha), lp.prev))
    ELSE value

PrevNotStored(lp, value) == [lp EXCEPT !.initialized = TRUE]
LowPassFilter(lp, value) ==
    [lp EXCEPT !.initialized = TRUE, !.prev = LowPassResult(lp, value)]

NewOneEuroFilter ==
    [freq |-> FiltersFreq,
     xFilter |-> NewLowPassFilter(Alpha(FiltersFreq, FiltersMinCutoff)),
     dxFilter |-> NewLowPassFilter(Alpha(FiltersFreq, FiltersDCutoff)),
     lastTime |-> -1,
     out |-> FlZero,
     calls |-> 0,
     first |-> FlZero,
     same |-> TRUE]

(***************************************************************************)
(* OneEuroFilter.filter(value, timestamp): the filter after the call; out  *)
(* is the value returned.  calls, first and same record the number of      *)
(* calls, the first raw value and whether every raw value equalled it.     *)
(***************************************************************************)
OneEuroFilter(f, value, timestamp) ==
    LET dt == timestamp - f.lastTime
        freq == IF f.lastTime # -1 /\ dt > 0
                THEN FlDiv(FlOne, Ratio(dt, 1000))
                ELSE f.freq
        dValue == IF f.xFilter.initialized
                  THEN FlMul(FlSub(value, f.xFilter.prev), freq)
                  ELSE FlZero
        edValue == LowPassResult(f.dxFilter, dValue)
        cutoff == FlAdd(FiltersMinCutoff, FlMul(FiltersBeta, FlAbs(edValue)))
        xFilter == [f.xFilter EXCEPT !.alpha = SetAlpha(Alpha(freq, cutoff))]
    IN  [freq |-> freq,
         xFilter |-> LowPassFilter(xFilter, value),
         dxFilter |-> LowPassFilter(f.dxFilter, dValue),
         lastTime |-> timestamp,
         out |-> LowPassResult(xFilter, value),
         calls |-> f.calls + 1,
         first |-> IF f.calls = 0 THEN value ELSE f.first,
         same |-> f.same /\ (f.calls = 0 \/ f.first = value)]

(***************************************************************************)
(* filterLandmarks(landmarks, timestampMs).  A frame is the sequence of    *)
(* hands; a hand maps each tracked (landmark, axis) to its raw value.  The *)
(* bank maps a key <<handIndex, landmarkIndex, axis>> to its filter.       *)
(***************************************************************************)
TipIndex == 8
TrackedPoints == {<<TipIndex, "x">>}
RawValues == {Ratio(1, 5), Ratio(4, 5)}
RawHands == [TrackedPoints -> RawValues]

KeysOf(landmarks) ==
    {<<h - 1, pt[1], pt[2]>> : h \in 1 .. Len(landmarks), pt \in TrackedPoints}

RawOf(landmarks, key) == landmarks[key[1] + 1][<<key[2], key[3]>>]

FilterLandmarks(bank, landmarks, timestamp) ==
    [key \in (DOMAIN bank) \cup KeysOf(landmarks) |->
        IF key \in KeysOf(landmarks)
        THEN OneEuroFilter(IF key \in DOMAIN bank THEN bank[key] ELSE NewOneEuroFilter,
                           RawOf(landmarks, key), timestamp)
        ELSE bank[key]]

(***************************************************************************)
(* clearUnusedFilters(activeHandCount), on the filter bank.                *)
(***************************************************************************)
NeverCleared(bank, activeHandCount) == bank
ClearAbsentSlots(bank, activeHandCount) ==
    [key \in {k \in DOMAIN bank : k[1] < activeHandCount} |-> bank[key]]
ClearUnusedFilters(bank, activeHandCount) ==
    IF activeHandCount = 0 /\ Cardinality(DOMAIN bank) > 0
    THEN [key \in {} |-> NewOneEuroFilter]
    ELSE bank

(***************************************************************************)
(* applyFingerForceFields(hands, deltaTime) on the tracked fingertip and   *)
(* axis.  tips maps a hand index to the filtered tip position; history is  *)
(* fingerVelocityHistory, keyed <<handIndex, tipIndex>>.  velocity maps    *)
(* each hand that had an entry to its term (tip.x - prev.x) / dt, and x is *)
(* force.x after multiplyScalar(6.5).  deltaTime, in ms, is what           *)
(* processGestures measures (at least 1 ms).                               *)
(***************************************************************************)
EmptyHistory == [key \in {} |-> FlZero]
NoForce == [velocity |-> [h \in {} |-> FlZero], x |-> FlZero]
ForceScale == Ratio(13, 2)
MinForceDt == 16

RECURSIVE SumVelocity(_, _)
SumVelocity(velocity, n) ==
    IF n = 0 THEN FlZero
    ELSE IF (n - 1) \in DOMAIN velocity
         THEN FlAdd(SumVelocity(velocity, n - 1), velocity[n - 1])
         ELSE SumVelocity(velocity, n - 1)

ApplyFingerForceFields(history, tips, deltaTime) ==
    IF DOMAIN tips = {}
    THEN [history |-> EmptyHistory, force |-> NoForce]
    ELSE LET dt == Ratio(Max(deltaTime, MinForceDt), 1000)
             velocity == [h \in {h \in DOMAIN tips : <<h, TipIndex>> \in DOMAIN history} |->
                             FlDiv(FlSub(tips[h], history[<<h, TipIndex>>]), dt)]
         IN  [history |-> [key \in (DOMAIN history) \cup {<<h, TipIndex>> : h \in DOMAIN tips} |->
                              IF key[1] \in DOMAIN tips THEN tips[key[1]] ELSE history[key]],
              force |-> [velocity |-> velocity,
                         x |-> FlMul(SumVelocity(velocity, Cardinality(DOMAIN tips)), ForceScale)]]

(***************************************************************************)
(* clearUnusedFilters(activeHandCount), on fingerVelocityHistory; bank is  *)
(* the filter bank before the call.                                        *)
(***************************************************************************)
ClearUnusedHistory(bank, history, activeHandCount) ==
    IF activeHandCount = 0 /\ Cardinality(DOMAIN bank) > 0
    THEN EmptyHistory
    ELSE history

(***************************************************************************)
(* processGestures on fingerVelocityHistory: cleared by                    *)
(* clearUnusedFilters, then cleared in the disabled and no-hands branches, *)
(* or read and written by applyFingerForceFields.                          *)
(***************************************************************************)
ForceFields(filtered, hands, deltaTime) ==
    LET history == ClearUnusedHistory(filtered, fingerVelocityHistory, hands)
        tips == [h \in 0 .. hands - 1 |-> filtered[<<h, TipIndex, "x">>].out]
        applied == ApplyFingerForceFields(history, tips, deltaTime)
    IN  IF ~gestureDetectionEnabled \/ hands = 0
        THEN /\ fingerVelocityHistory' = EmptyHistory
             /\ fingerForce' = NoForce
        ELSE /\ fingerVelocityHistory' = applied.history
             /\ fingerForce' = applied.force

InitForce ==
    /\ fingerVelocityHistory = EmptyHistory
    /\ fingerForce = NoForce

(***************************************************************************)
(* detectHands on the filter bank: a throttled detection filters the       *)
(* frame, then processGestures calls clearUnusedFilters(hands.length).     *)
(* gap: time since the previous detection, at least detectionInterval.     *)
(***************************************************************************)
DetectionInterval == 50
MaxClock == 250
MaxSteadyClock == 400
TickGaps == {DetectionInterval, 2 * DetectionInterval}
SteadyGaps == {DetectionInterval, DetectionInterval + 20, 2 * DetectionInterval}
SteadyValues == {Round(m, e) : m \in 2^(MantissaBits - 1) .. 2^MantissaBits - 1,
                              e \in {0 - MantissaBits, 0 - MantissaBits - 2}}
Frames == UNION {[1 .. n -> RawHands] : n \in 0 .. 2}

EmptyBank == [key \in {} |-> NewOneEuroFilter]

InitFilter ==
    /\ landmarkFilterBank = EmptyBank
    /\ filterOut = <<>>
    /\ filterIn = <<>>
    /\ filterFresh = <<>>
    /\ handsSeen = 0
    /\ filterClock = 0
    /\ lastGap = "no"
    /\ gapBefore = "no"

DetectHands(landmarks, gap) ==
    /\ gap >= DetectionInterval
    /\ LET now == filterClock + gap
           filtered == FilterLandmarks(landmarkFilterBank, landmarks, now)
       IN  /\ landmarkFilterBank' = ClearUnusedFilters(filtered, Len(landmarks))
           /\ filterOut' = [key \in KeysOf(landmarks) |-> filtered[key].out]
           /\ filterIn' = [key \in KeysOf(landmarks) |-> RawOf(landmarks, key)]
           /\ filterFresh' = [key \in KeysOf(landmarks) |->
                                key \notin DOMAIN landmarkFilterBank]
           /\ filterClock' = now
           /\ lastGap' = IF Len(landmarks) > 0 THEN "no"
                          ELSE IF Cardinality(DOMAIN filtered) > 0 \/ lastGap = "cleared"
                               THEN "cleared"
                               ELSE "empty"
           /\ ForceFields(filtered, Len(landmarks), gap)
    /\ handsSeen' = Len(landmarks)
    /\ gapBefore' = lastGap
    /\ UNCHANGED <<gestureVars, swipeVars, callVars, controlVars, loopVars, unloadVars, workerVars, cameraVars, memoVars>>

(***************************************************************************)
(* Swipe detection (app.js 2051-2107).  Positions are thousandths of the   *)
(* frame width, times are Date.now() in milliseconds, -1 stands for null.  *)
(* The swipe state is the record of swipeStartX, swipeStartTime,           *)
(* lastSwipeTime and prevHandX; detectSwipe returns it with the direction  *)
(* ("" for null).  velocity > swipeVelocityMin is compared after           *)
(* multiplying by the time.                                                *)
(***************************************************************************)
SwipeThreshold == 150
SwipeCooldown == 1000
SwipeVelocityMin == 150
SwipeWindowMs == 1500
ShapesLength == 2

SwipeState ==
    [swipeStartX |-> swipeStartX, swipeStartTime |-> swipeStartTime,
     lastSwipeTime |-> lastSwipeTime, prevHandX |-> prevHandX]

(* detectSwipe from the swipeStartX === null test on. *)
SwipeWindow(sw, currentX, now) ==
    IF sw.swipeStartX = -1
    THEN [swipeStartX |-> currentX, swipeStartTime |-> now,
          lastSwipeTime |-> sw.lastSwipeTime, prevHandX |-> currentX, direction |-> ""]
    ELSE LET totalDelta == currentX - sw.swipeStartX
             timeDelta == now - sw.swipeStartTime
         IN  IF /\ Abs(totalDelta) > SwipeThreshold
                /\ Abs(totalDelta) * 1000 > SwipeVelocityMin * Max(timeDelta, 1)
             THEN [swipeStartX |-> -1, swipeStartTime |-> -1,
                   lastSwipeTime |-> now, prevHandX |-> -1,
                   direction |-> IF totalDelta > 0 THEN "right" ELSE "left"]
             ELSE IF timeDelta > SwipeWindowMs
             THEN [swipeStartX |-> currentX, swipeStartTime |-> now,
                   lastSwipeTime |-> sw.lastSwipeTime, prevHandX |-> currentX,
                   direction |-> ""]
             ELSE [swipeStartX |-> sw.swipeStartX, swipeStartTime |-> sw.swipeStartTime,
                   lastSwipeTime |-> sw.lastSwipeTime, prevHandX |-> currentX,
                   direction |-> ""]

NoCooldown(sw, currentX, now) == SwipeWindow(sw, currentX, now)
DetectSwipe(sw, currentX, now) ==
    IF now - sw.lastSwipeTime < SwipeCooldown
    THEN [swipeStartX |-> sw.swipeStartX, swipeStartTime |-> sw.swipeStartTime,
          lastSwipeTime |-> sw.lastSwipeTime, prevHandX |-> sw.prevHandX,
          direction |-> ""]
    ELSE SwipeWindow(sw, currentX, now)

ChangeShapeNoWrap(index, direction) ==
    IF direction = "right" THEN index + 1
    ELSE IF direction = "left" THEN index - 1
    ELSE index

ChangeShape(index, direction) ==
    IF direction = "right" THEN (index + 1) % ShapesLength
    ELSE IF direction = "left" THEN (index - 1 + ShapesLength) % ShapesLength
    ELSE index

MaxSwipeClock == 3200
WristXs == {0, 80, 140, 220, 280}
SwipeGaps == {100, 400, 1100}

NoTrajectory ==
    [on |-> FALSE, startX |-> 0, startTime |-> 0, lastX |-> 0, lastTime |-> 0, events |-> 0]

(* Date.now() is far more than swipeCooldown past lastSwipeTime = 0. *)
InitSwipe ==
    /\ swipeStartX = -1
    /\ swipeStartTime = -1
    /\ lastSwipeTime = 0
    /\ prevHandX = -1
    /\ currentShapeIndex = 0
    /\ swipeClock = SwipeCooldown
    /\ swipeCall = [made |-> FALSE, cooling |-> FALSE, hadStart |-> FALSE,
                    totalDelta |-> 0, timeDelta |-> 0, direction |-> ""]
    /\ swipeTick = ""
    /\ lastSwipe = [direction |-> "", gap |-> -1]
    /\ traj = NoTrajectory

(***************************************************************************)
(* processGestures on the swipe state, for a frame whose first hand shows  *)
(* five fingers with the wrist at currentX: detectSwipe, and changeShape   *)
(* when it returns a direction.  A trajectory starts when detectSwipe      *)
(* records a window start outside the cooldown, goes on while five-finger  *)
(* frames follow with the wrist further right each time, and ends with the *)
(* first swipe event.                                                      *)
(***************************************************************************)
FiveFingerFrame(currentX, gap) ==
    LET now == swipeClock + gap
        cooling == now - lastSwipeTime < SwipeCooldown
        r == DetectSwipe(SwipeState, currentX, now)
        event == r.direction # ""
    IN  /\ swipeClock' = now
        /\ swipeStartX' = r.swipeStartX
        /\ swipeStartTime' = r.swipeStartTime
        /\ lastSwipeTime' = r.lastSwipeTime
        /\ prevHandX' = r.prevHandX
        /\ currentShapeIndex' = ChangeShape(currentShapeIndex, r.direction)
        /\ swipeCall' = [made |-> TRUE, cooling |-> cooling,
                         hadStart |-> swipeStartX # -1,
                         totalDelta |-> IF swipeStartX # -1 THEN currentX - swipeStartX ELSE 0,
                         timeDelta |-> IF swipeStartX # -1 THEN now - swipeStartTime ELSE 0,
                         direction |-> r.direction]
        /\ swipeTick' = "five"
        /\ lastSwipe' = IF event
                        THEN [direction |-> r.direction,
                              gap |-> IF lastSwipe.direction = "" THEN -1
                                      ELSE now - lastSwipeTime]
                        ELSE lastSwipe
        /\ traj' = IF swipeStartX = -1 /\ ~cooling
                   THEN [on |-> TRUE, startX |-> currentX, startTime |-> now,
                         lastX |-> currentX, lastTime |-> now, events |-> 0]
                   ELSE IF traj.on /\ traj.events = 0 /\ currentX > traj.lastX
                   THEN [traj EXCEPT !.lastX = currentX, !.lastTime = now,
                                     !.events = IF event THEN 1 ELSE 0]
                   ELSE NoTrajectory
        /\ UNCHANGED <<gestureVars, filterVars, callVars, controlVars, loopVars, unloadVars, forceVars, workerVars, cameraVars, memoVars>>

(***************************************************************************)
(* processGestures on the swipe state for a frame without hands (or with   *)
(* gesture detection disabled): prevHandX = null, nothing else.            *)
(***************************************************************************)
HandsLost(gap) ==
    /\ swipeClock' = swipeClock + gap
    /\ prevHandX' = -1
    /\ swipeTick' = "idle"
    /\ traj' = NoTrajectory
    /\ UNCHANGED <<swipeStartX, swipeStartTime, lastSwipeTime, currentShapeIndex,
                   swipeCall, lastSwipe>>
    /\ UNCHANGED <<gestureVars, filterVars, callVars, controlVars, loopVars, unloadVars, forceVars, workerVars, cameraVars, memoVars>>

(***************************************************************************)
(* processGestures on a frame whose primary hand does not show five        *)
(* fingers (fist, pinch, peace, one finger, wind): detectSwipe is not      *)
(* called and no swipe variable is written.                                *)
(***************************************************************************)
OtherGesture(gap) ==
    /\ swipeClock' = swipeClock + gap
    /\ swipeTick' = "other"
    /\ traj' = NoTrajectory
    /\ UNCHANGED <<swipeStartX, swipeStartTime, lastSwipeTime, prevHandX,
                   currentShapeIndex, swipeCall, lastSwipe>>
    /\ UNCHANGED <<gestureVars, filterVars, callVars, controlVars, loopVars, unloadVars, forceVars, workerVars, cameraVars, memoVars>>

(***************************************************************************)
(* Control channels (app.js 1602-1626, 2109-2385).  The channels are       *)
(* doubles; here they are floating-point numbers of MantissaBits bits      *)
(* whose least exponent is MinExponent, with gradual underflow: below      *)
(* 2^(MinExponent + MantissaBits - 1) the numbers are the multiples of     *)
(* 2^MinExponent, as the subnormal doubles are the multiples of 2^-1074.   *)
(***************************************************************************)
UnderflowDepth == 13
MinExponent == 0 - UnderflowDepth

(* The representable number nearest to n * 2^e. *)
Nearest(n, e) ==
    IF n = 0 THEN FlZero
    ELSE IF e + BitLen(Abs(n)) - MantissaBits >= MinExponent THEN Round(n, e)
    ELSE IF e >= MinExponent THEN <<n * 2^(e - MinExponent), MinExponent>>
    ELSE LET a == Abs(n)
             sgn == IF n < 0 THEN -1 ELSE 1
             s == MinExponent - e
             q == a \div 2^s
             r == a % 2^s
             half == 2^(s - 1)
             m == IF r > half \/ (r = half /\ q % 2 = 1) THEN q + 1 ELSE q
         IN  IF m = 0 THEN FlZero ELSE <<sgn * m, MinExponent>>

Times(x, y) == Nearest(x[1] * y[1], x[2] + y[2])

Plus(x, y) ==
    IF x[1] = 0 THEN y
    ELSE IF y[1] = 0 THEN x
    ELSE LET e == Min(x[2], y[2])
         IN  Nearest(x[1] * 2^(x[2] - e) + y[1] * 2^(y[2] - e), e)

Minus(x, y) == Plus(x, FlNeg(y))

(* x < y, exactly. *)
Below(x, y) ==
    LET e == Min(x[2], y[2])
    IN  x[1] * 2^(x[2] - e) < y[1] * 2^(y[2] - e)

MathMax(x, y) == IF Below(x, y) THEN y ELSE x
MathMin(x, y) == IF Below(y, x) THEN y ELSE x
NoClamp(x, lo, hi) == x
Clamp(x, lo, hi) == MathMax(lo, MathMin(hi, x))

Vector3(x, y, z) == <<x, y, z>>
VectorZero == Vector3(FlZero, FlZero, FlZero)
VectorAdd(v, w) == Vector3(Plus(v[1], w[1]), Plus(v[2], w[2]), Plus(v[3], w[3]))
MultiplyScalar(v, k) == Vector3(Times(v[1], k), Times(v[2], k), Times(v[3], k))

(* current += (target - current) * factor *)
Lerp(current, target, factor) == Plus(current, Times(Minus(target, current), factor))
VectorLerp(v, target, alpha) ==
    Vector3(Lerp(v[1], target[1], alpha), Lerp(v[2], target[2], alpha),
            Lerp(v[3], target[3], alpha))

SmoothingFactor == Ratio(1, 10)
GestureSmoothingFactor == Ratio(3, 20)
WindSmoothingFactor == Ratio(1, 10)
RotationSmoothingFactor == Ratio(3, 20)
BaseRotationSpeed == Ratio(1, 20)
MaxGestureRotationSpeed == Round(3, 0)
FistRotationMultiplier == Ratio(7, 4)
MinRotationVelocity == Ratio(3, 20)
RotationIdleDecay == Ratio(3, 20)
SwirlFactor == Ratio(1, 20)

NoDecay == FlOne
IdleDecay == Ratio(19, 20)

(* 50 ms between two detection ticks, in seconds *)
TickSeconds == Ratio(1, 20)

InitialSmoothed ==
    [smoothedExpansion |-> Ratio(1, 2), smoothedSwirl |-> FlZero,
     smoothedWiggle |-> FlZero, smoothedExplosion |-> FlZero,
     smoothedAttractorStrength |-> FlZero, smoothedWindForce |-> VectorZero,
     smoothedPulse |-> FlZero]

NoTick ==
    [kind |-> "", before |-> InitialSmoothed, target |-> InitialSmoothed,
     twoHands |-> FALSE, active |-> FALSE, angleBefore |-> "null",
     targetBefore |-> BaseRotationSpeed]

InitControl ==
    /\ smoothed = InitialSmoothed
    /\ targetRotationSpeed = BaseRotationSpeed
    /\ prevFistAngle = "null"
    /\ freezeTimeTarget = FlOne
    /\ prevTips = 0
    /\ controlTicks = 0
    /\ lastTick = NoTick

DecayTowardsZero(target) == Lerp(target, FlZero, RotationIdleDecay)
DecayRotationTarget(target) == Lerp(target, BaseRotationSpeed, RotationIdleDecay)

(***************************************************************************)
(* handleExpansionRotation(hand, deltaTime): the new prevFistAngle, the     *)
(* new targetRotationSpeed and the value returned.  twistAngle is           *)
(* getPalmTwistAngle(hand); the twist angles drawn are less than pi apart,  *)
(* where normalizeAngleDiff is the identity.                                *)
(***************************************************************************)
HandleExpansionRotation(prevAngle, target, twistAngle, deltaTime) ==
    IF prevAngle = "null"
    THEN [prevFistAngle |-> twistAngle, targetRotationSpeed |-> target, active |-> FALSE]
    ELSE LET deltaAngle == Minus(twistAngle, prevAngle)
             rotationVelocity == FlDiv(deltaAngle, MathMax(deltaTime, Ratio(2, 125)))
         IN  IF Below(FlAbs(rotationVelocity), MinRotationVelocity)
             THEN [prevFistAngle |-> twistAngle, targetRotationSpeed |-> target,
                   active |-> FALSE]
             ELSE [prevFistAngle |-> twistAngle,
                   targetRotationSpeed |->
                       Clamp(Times(rotationVelocity, FistRotationMultiplier),
                             FlNeg(MaxGestureRotationSpeed), MaxGestureRotationSpeed),
                   active |-> TRUE]

(***************************************************************************)
(* The idle branches of processGestures (gestures disabled, no hands).     *)
(* sinT and sinHalfT are Math.sin(t) and Math.sin(t * 0.5) of the wall     *)
(* clock.                                                                  *)
(***************************************************************************)
AutoMode(s, sinT, sinHalfT) ==
    [smoothedExpansion |-> Plus(Ratio(4, 5), Times(sinT, Ratio(1, 5))),
     smoothedSwirl |-> Times(sinHalfT, Ratio(1, 2)),
     smoothedWiggle |-> FlZero,
     smoothedExplosion |-> FlZero,
     smoothedAttractorStrength |-> Times(s.smoothedAttractorStrength, IdleDecay),
     smoothedWindForce |-> MultiplyScalar(s.smoothedWindForce, IdleDecay),
     smoothedPulse |-> Times(s.smoothedPulse, IdleDecay)]

(***************************************************************************)
(* What processGestures reads from the hands besides the frame's gesture   *)
(* features: aggregateHandData, computeTipMovement, applyFingerForceFields, *)
(* getPalmTwistAngle and the angle between two wrists.                     *)
(***************************************************************************)
HandData(openness, avgHandSize, movement, direction, fingerFieldForce, twistAngle, angle) ==
    [openness |-> openness, avgHandSize |-> avgHandSize, movement |-> movement,
     direction |-> direction, fingerFieldForce |-> fingerFieldForce,
     twistAngle |-> twistAngle, angle |-> angle]

ApplyDirectionalWind(direction, magnitude) ==
    Vector3(Times(direction[1], magnitude), FlNeg(Times(direction[2], magnitude)), FlZero)

ComputeTipMovement(tips, currentTips, movement) ==
    IF tips = 0 \/ tips # currentTips THEN FlZero ELSE movement

(***************************************************************************)
(* The hands branch of processGestures (app.js 2215-2380) on the control   *)
(* channels: the branch taken, its label, its targets, and the channels,   *)
(* rotation target and twist sample it leaves.  s is the channel record,   *)
(* f the frame's gesture features, d its hand data.                        *)
(***************************************************************************)
HandsBranch(f) ==
    IF f.fingerCount = 5
    THEN IF f.swipeDirection # "" THEN "swipe" ELSE "rotate"
    ELSE IF f.isFist THEN "fist"
    ELSE IF f.isPinching THEN "pinch"
    ELSE IF f.isPeaceSign THEN "peace"
    ELSE IF f.fingerCount = 1 THEN "one"
    ELSE "fingers"

HandsLabel(f) ==
    LET branch == HandsBranch(f)
    IN  IF branch = "swipe"
        THEN (IF f.swipeDirection = "right" THEN "Swipe Right" ELSE "Swipe Left")
        ELSE IF branch = "rotate" THEN "Rotate + Expand"
        ELSE IF branch = "fist" THEN "Collapse"
        ELSE IF branch = "pinch" THEN "Pinch (Attract)"
        ELSE IF branch = "peace" THEN "Peace (Pulse)"
        ELSE IF branch = "one" THEN "One Finger (Collapse)"
        ELSE FingersLabel(f.fingerCount)

HandsTargets(f, d, tips) ==
    LET branch == HandsBranch(f)
        wind == IF branch = "rotate" THEN ApplyDirectionalWind(d.direction, Round(8, 0))
                ELSE IF branch = "fingers"
                THEN ApplyDirectionalWind(d.direction, Round(5, 0))
                ELSE VectorZero
    IN  [smoothedExpansion |->
             Clamp(Times(Minus(d.openness, Ratio(1, 10)), Ratio(7, 2)), FlZero, FlOne),
         smoothedSwirl |-> IF f.hands = 2 THEN Times(d.angle, FlTwo) ELSE FlZero,
         smoothedWiggle |-> ComputeTipMovement(tips, 5 * f.hands, d.movement),
         smoothedExplosion |->
             Clamp(Times(Minus(Ratio(3, 10), d.avgHandSize), Round(4, 0)), FlZero, FlOne),
         smoothedAttractorStrength |-> IF branch = "pinch" THEN Round(5, 0) ELSE FlZero,
         smoothedWindForce |->
             IF ~f.isFist /\ branch # "pinch" THEN VectorAdd(wind, d.fingerFieldForce)
             ELSE wind,
         smoothedPulse |-> IF branch = "peace" THEN FlOne ELSE FlZero]

(* The assignments of the branches to smoothedExplosion and smoothedExpansion. *)
BranchAssignments(s, branch) ==
    [s EXCEPT
        !.smoothedExplosion =
            IF branch = "rotate" THEN MathMin(Ratio(3, 2), Plus(@, Ratio(3, 100))) ELSE @,
        !.smoothedExpansion =
            IF branch = "fist" THEN MathMax(FlZero, Minus(@, Ratio(1, 25)))
            ELSE IF branch = "one" THEN MathMax(FlZero, Minus(@, Ratio(3, 100)))
            ELSE @]

SmoothChannels(s, target, twoHands) ==
    [smoothedExpansion |-> Lerp(s.smoothedExpansion, target.smoothedExpansion, SmoothingFactor),
     smoothedSwirl |->
         IF twoHands THEN Lerp(s.smoothedSwirl, target.smoothedSwirl, SwirlFactor)
         ELSE Times(s.smoothedSwirl, IdleDecay),
     smoothedWiggle |-> Lerp(s.smoothedWiggle, target.smoothedWiggle, SmoothingFactor),
     smoothedExplosion |-> Lerp(s.smoothedExplosion, target.smoothedExplosion, SmoothingFactor),
     smoothedAttractorStrength |->
         Lerp(s.smoothedAttractorStrength, target.smoothedAttractorStrength,
              GestureSmoothingFactor),
     smoothedWindForce |->
         VectorLerp(s.smoothedWindForce, target.smoothedWindForce, WindSmoothingFactor),
     smoothedPulse |-> Lerp(s.smoothedPulse, target.smoothedPulse, SmoothingFactor)]

FistRotates(f, prevAngle, target, d) == HandleExpansionRotation(prevAngle, target, d.twistAngle, TickSeconds)

(* rotationGestureActive, prevFistAngle and targetRotationSpeed after the branch *)
BranchRotation(f, prevAngle, target, d) ==
    LET branch == HandsBranch(f)
    IN  IF branch = "rotate"
        THEN HandleExpansionRotation(prevAngle, target, d.twistAngle, TickSeconds)
        ELSE [prevFistAngle |-> IF branch = "swipe" THEN prevAngle ELSE "null",
              targetRotationSpeed |-> target, active |-> FALSE]

(***************************************************************************)
(* processGestures(result) on the control channels and the label it        *)
(* leaves in currentGesture.  hands = 0 stands for an empty landmark list. *)
(***************************************************************************)
ProcessGesturesControl(f, d, sinT, sinHalfT) ==
    /\ controlTicks' = controlTicks + 1
    /\ IF ~gestureDetectionEnabled \/ f.hands = 0
       THEN /\ smoothed' = AutoMode(smoothed, sinT, sinHalfT)
            /\ freezeTimeTarget' = FlOne
            /\ prevTips' = 0
            /\ prevFistAngle' = "null"
            /\ targetRotationSpeed' = BaseRotationSpeed
            /\ currentGesture' = IF ~gestureDetectionEnabled THEN "Gestures Disabled"
                                 ELSE IF aiEnabled THEN "AI Auto Mode" ELSE "Auto Mode"
            /\ lastTick' = [kind |-> IF ~gestureDetectionEnabled THEN "disabled" ELSE "idle",
                            before |-> smoothed, target |-> InitialSmoothed,
                            twoHands |-> FALSE, active |-> FALSE,
                            angleBefore |-> prevFistAngle,
                            targetBefore |-> targetRotationSpeed]
       ELSE LET branch == HandsBranch(f)
                target == HandsTargets(f, d, prevTips)
                rotation == BranchRotation(f, prevFistAngle, targetRotationSpeed, d)
            IN  /\ smoothed' = SmoothChannels(BranchAssignments(smoothed, branch), target,
                                              f.hands = 2)
                /\ freezeTimeTarget' = IF branch = "fist" THEN Ratio(7, 10) ELSE FlOne
                /\ prevTips' = 5 * f.hands
                /\ prevFistAngle' = rotation.prevFistAngle
                /\ targetRotationSpeed' =
                       IF rotation.active THEN rotation.targetRotationSpeed
                       ELSE DecayRotationTarget(rotation.targetRotationSpeed)
                /\ currentGesture' = HandsLabel(f)
                /\ lastTick' = [kind |-> branch, before |-> smoothed, target |-> target,
                                twoHands |-> f.hands = 2, active |-> rotation.active,
                                angleBefore |-> prevFistAngle,
                                targetBefore |-> targetRotationSpeed]

(***************************************************************************)
(* SpecControl: detection ticks on the control channels.  Hands are in     *)
(* view during the first MaxGestureTicks ticks at most and gone            *)
(* afterwards.                                                             *)
(***************************************************************************)
MaxGestureTicks == 2
MaxControlTicks == 130

ControlFrames ==
    { Frame(0, 0, FALSE, FALSE, FALSE, ""),
      Frame(1, 5, FALSE, FALSE, FALSE, "right"),
      Frame(1, 5, FALSE, FALSE, FALSE, ""),
      Frame(1, 0, TRUE, FALSE, FALSE, ""),
      Frame(1, 2, FALSE, TRUE, FALSE, ""),
      Frame(1, 2, FALSE, FALSE, TRUE, ""),
      Frame(1, 1, FALSE, FALSE, FALSE, ""),
      Frame(2, 3, FALSE, FALSE, FALSE, "") }

HandSamples ==
    { HandData(Ratio(3, 10), Ratio(1, 5), Ratio(1, 2), <<Ratio(3, 5), Ratio(4, 5)>>,
               VectorZero, FlZero, Ratio(1, 2)),
      HandData(Ratio(3, 10), Ratio(1, 5), Ratio(1, 2), <<Ratio(3, 5), Ratio(4, 5)>>,
               VectorZero, Ratio(1, 20), Ratio(1, 2)) }

(* Math.sin(t) and Math.sin(t * 0.5) of the wall clock at the n-th tick. *)
IdlePhase(n) == IF n % 2 = 0 THEN <<FlOne, Ratio(7, 10)>> ELSE <<FlZero, FlZero>>

ControlTick ==
    /\ controlTicks < MaxControlTicks
    /\ \E f \in ControlFrames, d \in HandSamples :
            /\ f.hands > 0 => controlTicks < MaxGestureTicks
            /\ ProcessGesturesControl(f, d, IdlePhase(controlTicks)[1],
                                      IdlePhase(controlTicks)[2])
    /\ UNCHANGED <<gestureState, gestureDetectionEnabled, aiEnabled, enhancedDetector,
                   aiLoad, pendingDetect, unhandledRejection, lastLabel, prevAgreed,
                   switched, lastRule, aiSeenByTick, aiFailure>>
    /\ UNCHANGED <<filterVars, swipeVars, callVars, loopVars, unloadVars, forceVars, workerVars, cameraVars, memoVars>>

(***************************************************************************)
(* Frame loop (app.js 1568-1571, 1660-1736, 2389-2533, 2553-2561).        *)
(* animate and detectHands are requestAnimationFrame callbacks: animate    *)
(* is registered at start-up and re-registers itself first thing, so it    *)
(* runs on every frame, before detectHands when that one is registered.    *)
(* Times are performance.now() in milliseconds.                            *)
(***************************************************************************)
NoFrame ==
    [kind |-> "", visible |-> TRUE, delta |-> FlZero, detected |-> FALSE, thrown |-> "",
     partial |-> FALSE, failure |-> "", prevDetection |-> 0, uTimeBefore |-> FlZero,
     rotationBefore |-> FlZero, ticksBefore |-> 0]

InitLoop ==
    /\ timeNow = 0
    /\ isPageVisible = TRUE
    /\ webcam = "off"
    /\ detectScheduled = FALSE
    /\ lastDetectionTime = 0
    /\ lastVideoTime = -1
    /\ videoTime = 0
    /\ clockOldTime = 0
    /\ uTime = FlZero
    /\ uFreezeTime = FlOne
    /\ smoothedRotationSpeed = BaseRotationSpeed
    /\ cosmicRotation = FlZero
    /\ lastFrame = NoFrame

(* clock.getDelta() at nowMs, in seconds *)
GetDelta(nowMs) == Ratio(nowMs - clockOldTime, 1000)

(* animate() at nowMs *)
Animate(nowMs) ==
    LET delta == GetDelta(nowMs)
        freeze == Lerp(uFreezeTime, freezeTimeTarget, SmoothingFactor)
        speed == Lerp(smoothedRotationSpeed, targetRotationSpeed, RotationSmoothingFactor)
        rotationDelta == Times(Times(delta, speed), freeze)
    IN  /\ clockOldTime' = nowMs
        /\ uFreezeTime' = freeze
        /\ uTime' = Plus(uTime, Times(delta, freeze))
        /\ smoothedRotationSpeed' = speed
        /\ cosmicRotation' = Plus(cosmicRotation, rotationDelta)

Unthrottled(nowMs, last) == TRUE
Throttled(nowMs, last) == nowMs - last >= DetectionInterval

RescheduleInTry(thrown) == thrown = ""
Reschedules(thrown) == TRUE

(***************************************************************************)
(* The step of the try block that throws, or "".  failure is a failure of  *)
(* the detector call, of the filtering or of the gesture processing drawn  *)
(* for this tick; partial says that a hand of the result has fewer than 21 *)
(* points, on which drawHandLandmarks reads landmarks[start].x of a        *)
(* missing point.                                                          *)
(***************************************************************************)
Thrown(failure, partial) ==
    IF failure \in {"detect", "filter"} THEN failure
    ELSE IF partial THEN "draw"
    ELSE failure

Failures == {"", "detect", "filter", "process"}

(* The detection block of detectHands runs at nowMs with the video at frame video. *)
Detects(nowMs, video) ==
    /\ isPageVisible
    /\ video # lastVideoTime
    /\ Throttled(nowMs, lastDetectionTime)

(***************************************************************************)
(* detectHands() at nowMs.  A failure inside processGestures is taken at   *)
(* its first call on the hand (app.js 2216-2218), after currentGesture was *)
(* set to None and before any channel is written.                          *)
(***************************************************************************)
DetectHandsCallback(nowMs, video, f, d, partial, failure) ==
    LET thrown == Thrown(failure, partial /\ f.hands > 0)
    IN  IF Detects(nowMs, video)
        THEN /\ lastVideoTime' = video
             /\ lastDetectionTime' = nowMs
             /\ IF thrown = ""
                THEN ProcessGesturesControl(f, d, IdlePhase(controlTicks)[1],
                                            IdlePhase(controlTicks)[2])
                ELSE /\ currentGesture' = IF thrown = "process" THEN "None"
                                          ELSE currentGesture
                     /\ UNCHANGED controlVars
             /\ detectScheduled' = Reschedules(thrown)
        ELSE /\ detectScheduled' = TRUE
             /\ UNCHANGED <<lastVideoTime, lastDetectionTime, currentGesture, controlVars>>

FrameRecord(kind, nowMs, video, f, partial, failure, ran) ==
    [kind |-> kind, visible |-> isPageVisible,
     delta |-> IF kind = "frame" THEN GetDelta(nowMs) ELSE FlZero,
     detected |-> ran /\ Detects(nowMs, video),
     thrown |-> IF ran /\ Detects(nowMs, video) THEN Thrown(failure, partial /\ f.hands > 0)
                ELSE "",
     partial |-> ran /\ Detects(nowMs, video) /\ partial /\ f.hands > 0,
     failure |-> IF ran /\ Detects(nowMs, video) THEN failure ELSE "",
     prevDetection |-> lastDetectionTime, uTimeBefore |-> uTime,
     rotationBefore |-> cosmicRotation, ticksBefore |-> controlTicks]

MaxLoopClock == 120
FrameGaps == {20, 30, 250}

LoopFrames ==
    { Frame(0, 0, FALSE, FALSE, FALSE, ""),
      Frame(1, 2, FALSE, TRUE, FALSE, "") }

LoopHand ==
    HandData(Ratio(3, 10), Ratio(1, 5), Ratio(1, 2), <<Ratio(3, 5), Ratio(4, 5)>>,
             VectorZero, FlZero, Ratio(1, 2))

OtherGestureVars ==
    <<gestureState, gestureDetectionEnabled, aiEnabled, enhancedDetector, aiLoad,
      pendingDetect, unhandledRejection, lastLabel, prevAgreed, switched, lastRule,
      aiSeenByTick, aiFailure>>

(***************************************************************************)
(* The browser runs the animation frame callbacks gap ms after the last    *)
(* frame.  While the camera streams, video.currentTime advances once per   *)
(* VideoFrameMs.                                                           *)
(***************************************************************************)
VideoFrameMs == 30
VideoCurrentTime(nowMs) == nowMs \div VideoFrameMs

AnimationFrame ==
    /\ timeNow < MaxLoopClock
    /\ \E gap \in FrameGaps, f \in LoopFrames, partial \in BOOLEAN, failure \in Failures :
           LET nowMs == timeNow + gap
               video == IF webcam = "streaming" THEN VideoCurrentTime(nowMs) ELSE videoTime
           IN  /\ timeNow' = nowMs
               /\ videoTime' = video
               /\ Animate(nowMs)
               /\ IF detectScheduled
                  THEN DetectHandsCallback(nowMs, video, f, LoopHand, partial, failure)
                  ELSE UNCHANGED <<detectScheduled, lastVideoTime, lastDetectionTime,
                                   currentGesture, controlVars>>
               /\ lastFrame' = FrameRecord("frame", nowMs, video, f, partial, failure,
                                           detectScheduled)
    /\ UNCHANGED <<isPageVisible, webcam, OtherGestureVars>>
    /\ UNCHANGED <<filterVars, swipeVars, callVars, unloadVars, forceVars, workerVars, cameraVars, memoVars>>

(***************************************************************************)
(* startWebcam(): getUserMedia is refused, or the stream loads and the     *)
(* loadeddata listener calls detectHands().                                *)
(***************************************************************************)
StartWebcam(granted) ==
    /\ webcam \in {"off", "denied"}
    /\ IF granted
       THEN /\ webcam' = "streaming"
            /\ \E f \in LoopFrames, partial \in BOOLEAN, failure \in Failures :
                   /\ DetectHandsCallback(timeNow, videoTime, f, LoopHand, partial, failure)
                   /\ lastFrame' = FrameRecord("start", timeNow, videoTime, f, partial,
                                               failure, TRUE)
       ELSE /\ webcam' = "denied"
            /\ UNCHANGED <<detectScheduled, lastVideoTime, lastDetectionTime, currentGesture,
                           controlVars, lastFrame>>
    /\ UNCHANGED <<timeNow, isPageVisible, videoTime, clockOldTime, uTime, uFreezeTime,
                   smoothedRotationSpeed, cosmicRotation, OtherGestureVars>>
    /\ UNCHANGED <<filterVars, swipeVars, callVars, unloadVars, forceVars, workerVars, cameraVars, memoVars>>

(* The camera stream ends: video.currentTime no longer advances. *)
RevokeCamera ==
    /\ webcam = "streaming"
    /\ webcam' = "revoked"
    /\ UNCHANGED <<timeNow, isPageVisible, detectScheduled, lastDetectionTime,
                   lastVideoTime, videoTime, clockOldTime, uTime, uFreezeTime,
                   smoothedRotationSpeed, cosmicRotation, lastFrame>>
    /\ UNCHANGED <<gestureVars, filterVars, swipeVars, callVars, controlVars, unloadVars, forceVars, workerVars, cameraVars, memoVars>>

(* visibilitychange *)
VisibilityChange ==
    /\ isPageVisible' = ~isPageVisible
    /\ UNCHANGED <<timeNow, webcam, detectScheduled, lastDetectionTime, lastVideoTime,
                   videoTime, clockOldTime, uTime, uFreezeTime, smoothedRotationSpeed,
                   cosmicRotation, lastFrame>>
    /\ UNCHANGED <<gestureVars, filterVars, swipeVars, callVars, controlVars, unloadVars, forceVars, workerVars, cameraVars, memoVars>>

(***************************************************************************)
(* Page unload (app.js 2566-2589).  The listener stops the tracks of       *)
(* video.srcObject when a stream was attached, then disposes the resources *)
(* in DisposeOrder and last the detector when one exists.  ModuleBindings  *)
(* are the names of DisposeOrder declared at module scope; bgGeo and       *)
(* galaxyGeo are const declarations inside loadBackgrounds (816, 859), so  *)
(* a read of either outside that function throws a ReferenceError and the  *)
(* listener ends there.                                                    *)
(***************************************************************************)
DisposeOrder ==
    <<"geo", "bgGeo", "mat", "bgMat", "galaxyGeo", "galaxyMat", "particleTex", "renderer">>
ModuleBindings == {"geo", "mat", "bgMat", "galaxyMat", "particleTex", "renderer"}

InitUnload ==
    page = [unloaded |-> FALSE, tracksStopped |-> FALSE, disposed |-> {},
            detectorDisposed |-> FALSE, thrown |-> ""]

(* index of the first statement of the dispose sequence that throws, or Len + 1 *)
FirstThrow ==
    LET unbound == {i \in 1 .. Len(DisposeOrder) : DisposeOrder[i] \notin ModuleBindings}
    IN  IF unbound = {} THEN Len(DisposeOrder) + 1
        ELSE CHOOSE i \in unbound : \A j \in unbound : i <= j

StreamAttached == webcam \in {"streaming", "revoked"}

BeforeUnload ==
    /\ ~page.unloaded
    /\ LET completes == FirstThrow > Len(DisposeOrder)
           disposesDetector == completes /\ enhancedDetector.exists
       IN  /\ page' = [unloaded |-> TRUE,
                       tracksStopped |-> StreamAttached,
                       disposed |-> {DisposeOrder[i] : i \in 1 .. FirstThrow - 1},
                       detectorDisposed |-> disposesDetector,
                       thrown |-> IF completes THEN "" ELSE DisposeOrder[FirstThrow]]
           /\ enhancedDetector' =
                  IF disposesDetector
                  THEN [enhancedDetector EXCEPT !.isInitialized = FALSE, !.useAI = FALSE]
                  ELSE enhancedDetector
    /\ UNCHANGED <<gestureState, currentGesture, gestureDetectionEnabled, aiEnabled, aiLoad,
                   pendingDetect, unhandledRejection, lastLabel, prevAgreed, switched,
                   lastRule, aiSeenByTick, aiFailure>>
    /\ UNCHANGED <<filterVars, swipeVars, callVars, controlVars, loopVars, forceVars, workerVars, cameraVars, memoVars>>

(***************************************************************************)
(* Hand geometry (app.js 1810-1817, 1875-1892).  Coordinates are in        *)
(* ten-thousandths of the frame (0.02 is 200), a hand is a function from   *)
(* the landmark indices the functions read to points <<x, y>>.  The hands  *)
(* drawn have axis-parallel palm segments, whose Math.hypot is exact.      *)
(***************************************************************************)
RECURSIVE SqrtFrom(_, _)
SqrtFrom(n, r) == IF (r + 1) * (r + 1) > n THEN r ELSE SqrtFrom(n, r + 1)
MathHypot(dx, dy) == IF dy = 0 THEN Abs(dx) ELSE IF dx = 0 THEN Abs(dy)
                     ELSE SqrtFrom(dx * dx + dy * dy, 0)

HandScaleFloor == 100
ThresholdFloor == 200

(* twice getHandScale(hand) *)
TwiceHandScale(hand) ==
    LET palmWidth == MathHypot(hand[5][1] - hand[17][1], hand[5][2] - hand[17][2])
        palmLength == MathHypot(hand[9][1] - hand[0][1], hand[9][2] - hand[0][2])
    IN  Max(2 * HandScaleFloor, palmWidth + palmLength)

FingerTips == <<8, 12, 16, 20>>
FingerPIPs == <<6, 10, 14, 18>>

(* Math.max(floor, factor * handScale), both sides multiplied by a common factor *)
MathMaxFloor(floor, scaled) == Max(floor, scaled)

(***************************************************************************)
(* countExtendedFingers(hand).  thumbDist > max(0.02, 0.35 * handScale)    *)
(* is compared after multiplying by 2000, yDiff > max(0.02, 0.18 *         *)
(* handScale) after multiplying by 100.                                    *)
(***************************************************************************)
CountExtendedFingers(hand) ==
    LET twice == TwiceHandScale(hand)
        thumbDist == Abs(hand[4][1] - hand[2][1])
        thumb == IF 2000 * thumbDist > MathMaxFloor(2000 * ThresholdFloor, 350 * twice)
                 THEN 1 ELSE 0
        Extended(i) ==
            LET yDiff == hand[FingerPIPs[i]][2] - hand[FingerTips[i]][2]
            IN  100 * yDiff > MathMaxFloor(100 * ThresholdFloor, 9 * twice)
    IN  thumb + Cardinality({i \in 1 .. 4 : Extended(i)})

FistFloor == 400
PeaceFloor == 150

SquaredDistance(p, q) == (p[1] - q[1]) * (p[1] - q[1]) + (p[2] - q[2]) * (p[2] - q[2])

(***************************************************************************)
(* Math.hypot(p - q) < (n / 20) * handScale, that is                       *)
(* hypot^2 < n^2 * twice^2 / 1600, compared on quotient and remainder of   *)
(* twice^2 by 1600 so that no product leaves the 32-bit range.             *)
(***************************************************************************)
Within(p, q, n, twice) ==
    LET square == twice * twice
        lead == SquaredDistance(p, q) - n * n * (square \div 1600)
    IN  IF lead < 0 THEN TRUE
        ELSE IF lead >= n * n THEN FALSE
        ELSE lead * 1600 < n * n * (square % 1600)

(***************************************************************************)
(* detectFist(hand): at least four of the five tips closer to the palm     *)
(* than max(0.04, 0.55 * handScale).                                       *)
(***************************************************************************)
FistTips == <<4, 8, 12, 16, 20>>

DetectFist(hand) ==
    LET twice == TwiceHandScale(hand)
        Closed(i) ==
            \/ SquaredDistance(hand[FistTips[i]], hand[9]) < FistFloor * FistFloor
            \/ Within(hand[FistTips[i]], hand[9], 11, twice)
    IN  Cardinality({i \in 1 .. 5 : Closed(i)}) >= 4

(* detectPinch(hand): thumb tip and index tip closer than 0.45 * handScale. *)
DetectPinch(hand) == Within(hand[4], hand[8], 9, TwiceHandScale(hand))

(***************************************************************************)
(* detectPeaceSign(hand): index and middle tips more than max(0.015,       *)
(* 0.12 * handScale) above their PIP joints, ring and little finger tips   *)
(* closer to the palm than 0.65 * handScale.                               *)
(***************************************************************************)
DetectPeaceSign(hand) ==
    LET twice == TwiceHandScale(hand)
        Up(tip, pip) == 50 * (hand[pip][2] - hand[tip][2]) > MathMaxFloor(50 * PeaceFloor, 3 * twice)
    IN  /\ Up(8, 6) /\ Up(12, 10)
        /\ Within(hand[16], hand[9], 13, twice) /\ Within(hand[20], hand[9], 13, twice)

(***************************************************************************)
(* The frame processGestures derives from one hand that is not swiping:    *)
(* pinch is tested only when the hand is no fist, peace only when it is    *)
(* neither (the flags keep their initial false otherwise).                 *)
(***************************************************************************)
FrameOfHand(hand) ==
    LET isFist == DetectFist(hand)
        isPinching == ~isFist /\ DetectPinch(hand)
        isPeaceSign == ~isFist /\ ~isPinching /\ DetectPeaceSign(hand)
    IN  Frame(1, CountExtendedFingers(hand), isFist, isPinching, isPeaceSign, "")

(* The hand with every point moved to wrist + (point - wrist) * k[1] / k[2]. *)
ScaleAroundWrist(hand, k) ==
    [i \in DOMAIN hand |->
        <<hand[0][1] + ((hand[i][1] - hand[0][1]) * k[1]) \div k[2],
          hand[0][2] + ((hand[i][2] - hand[0][2]) * k[1]) \div k[2]>>]

Wrist == <<5000, 8000>>

(***************************************************************************)
(* A hand of palm width and length palm, thumb tip thumbDist to the side   *)
(* of the thumb joint, and finger tips yDiffs[i] above their PIP joints.   *)
(***************************************************************************)
MakeHand(palm, thumbDist, yDiffs) ==
    LET x == Wrist[1]
        y == Wrist[2]
        half == palm \div 2
        Column(i) == x - half + ((i - 1) * palm) \div 4
    IN  (0 :> Wrist) @@ (2 :> <<x - half, y - half>>)
        @@ (4 :> <<x - half - thumbDist, y - half>>)
        @@ (5 :> <<x - half, y - palm>>) @@ (17 :> <<x + half, y - palm>>)
        @@ (9 :> <<x, y - palm>>)
        @@ [i \in {6, 10, 14, 18} |-> <<Column((i - 2) \div 4), y - palm - half>>]
        @@ [i \in {8, 12, 16, 20} |->
               <<Column((i - 4) \div 4), y - palm - half - yDiffs[(i - 4) \div 4]>>]

Palms == {512, 1024, 2048}
ThumbDists == {0, 256, 768}
FingerYDiffs ==
    { <<512, 512, 512, 512>>, <<512, 256, -256, -256>>, <<256, 256, 0, 0>>,
      <<128, 0, 0, 0>>, <<512, 512, 512, 0>>, <<-512, 512, 512, 512>> }
ScaleFactors == {<<1, 4>>, <<1, 2>>, <<2, 1>>, <<3, 1>>}

(***************************************************************************)
(* memoCache (app.js 434-468).  memoCache.handScale is the Map as the      *)
(* sequence of its entries in insertion order; scales are twice the value  *)
(* getHandScale computes, in ten-thousandths.  memoCache.hand is the hand  *)
(* of the last detection tick (0: none, else its index in MemoHands),      *)
(* served and again are what the first and the second getHandScale call of *)
(* that tick returned (0: not called), and wrapped tells whether frameId   *)
(* has wrapped around.                                                     *)
(***************************************************************************)
FrameWrap == 10000
ClearPeriod == 60
MemoLimit == 10
MaxFramesAfterWrap == 70

MemoHands == <<MakeHand(512, 0, <<512, 512, 512, 512>>), MakeHand(1024, 0, <<512, 512, 512, 512>>)>>

InitMemo ==
    memoCache = [frameId |-> 0, handScale |-> <<>>, hand |-> 0, served |-> 0, again |-> 0,
                 wrapped |-> FALSE]

(* nextFrame() *)
NextFrame(frameId) == IF frameId + 1 > FrameWrap THEN 0 ELSE frameId + 1

(* the key `${currentFrame}` *)
MemoKeyOfPair(currentFrame) == ToString(currentFrame \div 2)
MemoKey(currentFrame) == ToString(currentFrame)

(* getHandScale(hand, currentFrame): the Map after the call and the value returned *)
GetHandScale(handScale, hand, currentFrame) ==
    LET key == MemoKey(currentFrame)
        hits == {i \in 1 .. Len(handScale) : handScale[i].key = key}
    IN  IF hits # {}
        THEN [handScale |-> handScale, scale |-> handScale[CHOOSE i \in hits : TRUE].scale]
        ELSE LET scale == TwiceHandScale(hand)
                 set == Append(handScale, [key |-> key, scale |-> scale])
             IN  [handScale |-> IF Len(set) > MemoLimit THEN Tail(set) ELSE set,
                  scale |-> scale]

(* clearFrame() *)
ClearFrame(handScale, frameId) == IF frameId % ClearPeriod = 0 THEN <<>> ELSE handScale

(***************************************************************************)
(* One animation frame: animate calls clearFrame, then detectHands runs a  *)
(* detection tick or is throttled.  The tick calls nextFrame and, with a   *)
(* hand in view, getHandScale(hands[0], frameId) in detectFist and once    *)
(* more when a training sample is recorded.  The hand in view changes only *)
(* on the ticks where frameId % ClearPeriod is 0 or 5.                     *)
(***************************************************************************)
MemoFrame ==
    LET cleared == ClearFrame(memoCache.handScale, memoCache.frameId)
    IN  \E detect \in BOOLEAN, hand \in 0 .. Len(MemoHands), training \in BOOLEAN :
            IF ~detect
            THEN /\ hand = 0 /\ ~training
                 /\ memoCache' = [memoCache EXCEPT !.handScale = cleared]
            ELSE LET frameId == NextFrame(memoCache.frameId)
                     first == GetHandScale(cleared, MemoHands[hand], frameId)
                     second == GetHandScale(first.handScale, MemoHands[hand], frameId)
                 IN  /\ memoCache.wrapped => memoCache.frameId < MaxFramesAfterWrap
                     /\ frameId % ClearPeriod \notin {0, 5} => hand = memoCache.hand
                     /\ hand = 0 => ~training
                     /\ memoCache' =
                            [frameId |-> frameId,
                             handScale |-> IF hand = 0 THEN cleared ELSE second.handScale,
                             hand |-> hand,
                             served |-> IF hand = 0 THEN 0 ELSE first.scale,
                             again |-> IF training THEN second.scale ELSE 0,
                             wrapped |-> memoCache.wrapped \/ frameId = 0]

MemoTick ==
    /\ MemoFrame
    /\ UNCHANGED <<gestureVars, filterVars, swipeVars, callVars, controlVars, loopVars, unloadVars, forceVars, workerVars, cameraVars>>

(***************************************************************************)
(* The gesture worker (src/workers/gesture-worker.js).  worker.detector is *)
(* the one EnhancedGestureDetector the worker creates: bound tells whether *)
(* the module variable `detector` refers to it, load is the state of       *)
(* classifier.loadModel.  worker.requests[id] is the message with that id: *)
(* its type, whether the listener is still awaiting, has finished, or the  *)
(* message or its continuation was discarded by self.close(), and whether  *)
(* the variable `detector` was set when the listener ran.  worker.posted   *)
(* is the sequence of self.postMessage calls; loaded is result.loaded      *)
(* ("" when the reply has none).                                           *)
(***************************************************************************)
MaxMessages == 4
MessageTypes == {"init", "detect", "reset", "dispose", "ping"}

NewDetector ==
    [bound |-> FALSE, isInitialized |-> FALSE, useAI |-> FALSE, load |-> "none",
     disposed |-> FALSE]

InitWorker ==
    worker = [detector |-> NewDetector, closed |-> FALSE, requests |-> <<>>, posted |-> <<>>]

BoolText(b) == IF b THEN "true" ELSE "false"

Reply(id, type, loaded) == [id |-> id, type |-> type, loaded |-> loaded]

BareErrorReply(id, type) == Reply(id, "error", "")
ErrorReply(id, type) == Reply(id, type \o "-error", "")

Request(type, status) == [type |-> type, status |-> status, detector |-> worker.detector.bound]

(* The listener runs to its end within the task of the message. *)
Answered(type, reply, detector, closed) ==
    worker' = [detector |-> detector, closed |-> closed,
               requests |-> Append(worker.requests, Request(type, "done")),
               posted |-> Append(worker.posted, reply)]

(* The listener stops at an await that a later task resumes. *)
Awaiting(type, detector) ==
    worker' = [worker EXCEPT !.detector = detector,
                             !.requests = Append(@, Request(type, "awaiting"))]

(* detector.dispose() *)
DisposeDetector(detector) ==
    [detector EXCEPT !.isInitialized = FALSE, !.useAI = FALSE, !.disposed = TRUE]

OnMessage(type, hasLandmarks) ==
    LET id == Len(worker.requests) + 1
        detector == worker.detector
    IN  /\ id <= MaxMessages
        /\ IF worker.closed
           THEN worker' = [worker EXCEPT !.requests = Append(@, Request(type, "discarded"))]
           ELSE IF type = "init"
           THEN IF detector.bound
                THEN Answered(type, Reply(id, "init", BoolText(detector.useAI)), detector, FALSE)
                ELSE Awaiting(type, [detector EXCEPT !.bound = TRUE, !.load = "pending"])
           ELSE IF type = "detect"
           THEN IF ~detector.bound
                THEN Answered(type, ErrorReply(id, type), detector, FALSE)
                ELSE IF ~detector.isInitialized \/ ~detector.useAI \/ ~hasLandmarks
                THEN Answered(type, Reply(id, "detect", ""), detector, FALSE)
                ELSE Awaiting(type, detector)
           ELSE IF type = "reset"
           THEN Answered(type, Reply(id, "reset", ""), detector, FALSE)
           ELSE IF type = "dispose"
           THEN Answered(type, Reply(id, "dispose", ""),
                         IF detector.bound
                         THEN [DisposeDetector(detector) EXCEPT !.bound = FALSE]
                         ELSE detector,
                         TRUE)
           ELSE Answered(type, ErrorReply(id, type), detector, FALSE)
        /\ UNCHANGED <<gestureVars, filterVars, swipeVars, callVars, controlVars, loopVars, unloadVars, forceVars, cameraVars, memoVars>>

AwaitingIds(type) ==
    {i \in 1 .. Len(worker.requests) :
        worker.requests[i].type = type /\ worker.requests[i].status = "awaiting"}

(***************************************************************************)
(* classifier.loadModel settles: detector.init sets useAI and              *)
(* isInitialized, ensureDetector returns the variable `detector`, and the  *)
(* listener of the 'init' that created the detector posts its reply, or    *)
(* the error reply when the variable is null by then.                      *)
(***************************************************************************)
LoadSettles(loadResult) ==
    /\ worker.detector.load = "pending"
    /\ \E id \in AwaitingIds("init") :
           LET detector == [worker.detector EXCEPT !.load = loadResult,
                                                   !.useAI = (loadResult = "loaded"),
                                                   !.isInitialized = TRUE]
           IN  worker' = [worker EXCEPT
                             !.detector = detector,
                             !.requests[id].status = "done",
                             !.posted = Append(@, IF detector.bound
                                                  THEN Reply(id, "init", BoolText(detector.useAI))
                                                  ELSE ErrorReply(id, "init"))]
    /\ UNCHANGED <<gestureVars, filterVars, swipeVars, callVars, controlVars, loopVars, unloadVars, forceVars, cameraVars, memoVars>>

(***************************************************************************)
(* classifier.classify settles for an awaiting 'detect': detect returns    *)
(* and the listener posts the result, or classify threw and the listener   *)
(* posts the error reply.                                                  *)
(***************************************************************************)
ClassifySettles(threw) ==
    /\ \E id \in AwaitingIds("detect") :
           worker' = [worker EXCEPT
                         !.requests[id].status = "done",
                         !.posted = Append(@, IF threw THEN ErrorReply(id, "detect")
                                              ELSE Reply(id, "detect", ""))]
    /\ UNCHANGED <<gestureVars, filterVars, swipeVars, callVars, controlVars, loopVars, unloadVars, forceVars, cameraVars, memoVars>>

(***************************************************************************)
(* self.close() discards the tasks of the worker's event loop: listeners   *)
(* still awaiting are never resumed.                                       *)
(***************************************************************************)
CloseDiscards ==
    /\ worker.closed
    /\ \E i \in 1 .. Len(worker.requests) : worker.requests[i].status = "awaiting"
    /\ worker' = [worker EXCEPT
                     !.requests = [i \in 1 .. Len(@) |->
                                     IF @[i].status = "awaiting"
                                     THEN [@[i] EXCEPT !.status = "discarded"]
                                     ELSE @[i]],
                     !.detector.load = IF @ = "pending" THEN "discarded" ELSE @]
    /\ UNCHANGED <<gestureVars, filterVars, swipeVars, callVars, controlVars, loopVars, unloadVars, forceVars, cameraVars, memoVars>>

(***************************************************************************)
(* Starting the camera (app.js 1634-1704).  camera.landmarkerLoads and     *)
(* camera.requests count the initHandDetection and getUserMedia calls      *)
(* still pending, camera.listeners the 'loadeddata' listeners added to the *)
(* video element, camera.loading tells that a stream was assigned and its  *)
(* 'loadeddata' event is still to come, camera.loops counts the pending    *)
(* requestAnimationFrame(detectHands) callbacks, camera.scheduled is the   *)
(* number of callbacks the last detectHands invocation requested (-1: none *)
(* ran yet) and camera.clicks counts the clicks on the start button.       *)
(***************************************************************************)
MaxClicks == 3
MaxLoadedData == 3

InitCamera ==
    camera = [handLandmarker |-> FALSE, landmarkerLoads |-> 1, startBtn |-> FALSE,
              requests |-> 0, listeners |-> 0, loading |-> FALSE, loops |-> 0,
              scheduled |-> -1, clicks |-> 0, events |-> 0]

(* requestAnimationFrame(detectHands) calls on each path through detectHands *)
DetectPaths == {"not ready", "hidden", "throttled", "detected", "threw"}
Successors(path) == 1

(* initHandDetection() settles: startWebcam(), or the RETRY button. *)
InitHandDetectionDone(ok) ==
    /\ camera.landmarkerLoads > 0
    /\ camera' = IF ok
                 THEN [camera EXCEPT !.landmarkerLoads = @ - 1, !.handLandmarker = TRUE,
                                     !.requests = @ + 1]
                 ELSE [camera EXCEPT !.landmarkerLoads = @ - 1, !.startBtn = TRUE]
    /\ UNCHANGED <<gestureVars, filterVars, swipeVars, callVars, controlVars, loopVars, unloadVars, forceVars, workerVars, memoVars>>

(* click on the start button while it is displayed *)
StartButtonClick ==
    /\ camera.startBtn
    /\ camera.clicks < MaxClicks
    /\ camera' = IF ~camera.handLandmarker
                 THEN [camera EXCEPT !.clicks = @ + 1, !.landmarkerLoads = @ + 1]
                 ELSE [camera EXCEPT !.clicks = @ + 1, !.requests = @ + 1]
    /\ UNCHANGED <<gestureVars, filterVars, swipeVars, callVars, controlVars, loopVars, unloadVars, forceVars, workerVars, memoVars>>

(* getUserMedia settles: the stream is assigned and a listener added, or *)
(* the RETRY CAMERA button is shown.                                      *)
GetUserMediaDone(granted) ==
    /\ camera.requests > 0
    /\ camera' = IF granted
                 THEN [camera EXCEPT !.requests = @ - 1, !.listeners = @ + 1, !.loading = TRUE]
                 ELSE [camera EXCEPT !.requests = @ - 1, !.startBtn = TRUE]
    /\ UNCHANGED <<gestureVars, filterVars, swipeVars, callVars, controlVars, loopVars, unloadVars, forceVars, workerVars, memoVars>>

(* video.play() is rejected: the start button is shown again. *)
PlayRejected ==
    /\ camera.listeners > 0
    /\ ~camera.startBtn
    /\ camera' = [camera EXCEPT !.startBtn = TRUE]
    /\ UNCHANGED <<gestureVars, filterVars, swipeVars, callVars, controlVars, loopVars, unloadVars, forceVars, workerVars, memoVars>>

(* 'loadeddata' on the video element: every listener added so far runs *)
(* and calls detectHands().                                             *)
LoadedData ==
    /\ camera.loading
    /\ camera.events < MaxLoadedData
    /\ \E path \in DetectPaths :
           camera' = [camera EXCEPT !.loading = FALSE, !.startBtn = FALSE,
                                    !.events = @ + 1,
                                    !.loops = @ + camera.listeners * Successors(path),
                                    !.scheduled = Successors(path)]
    /\ UNCHANGED <<gestureVars, filterVars, swipeVars, callVars, controlVars, loopVars, unloadVars, forceVars, workerVars, memoVars>>

(* a pending requestAnimationFrame(detectHands) callback runs *)
DetectHandsFrame ==
    /\ camera.loops > 0
    /\ \E path \in DetectPaths :
           camera' = [camera EXCEPT !.loops = @ - 1 + Successors(path),
                                    !.scheduled = Successors(path)]
    /\ UNCHANGED <<gestureVars, filterVars, swipeVars, callVars, controlVars, loopVars, unloadVars, forceVars, workerVars, memoVars>>

InitCall ==
    /\ args = <<>>
    /\ returned = <<>>
    /\ called = FALSE

Init == InitGesture /\ InitFilter /\ InitSwipe /\ InitCall /\ InitControl /\ InitLoop /\ InitUnload /\ InitForce /\ InitWorker /\ InitCamera /\ InitMemo

Next ==
    \/ ToggleGestures
    \/ InitAI
    \/ \E loadResult \in LoadResults : InitAIDone(loadResult)
    \/ DetectionTick
    \/ AISettle

Spec == Init /\ [][Next]_vars

NextControl ==
    \/ ToggleGestures
    \/ ControlTick

SpecControl == Init /\ [][NextControl]_vars

(***************************************************************************)
(* SpecRotation: animation frames one detection interval apart, each       *)
(* followed by a detection tick.  A five-finger hand (palm twisting) shows *)
(* during the first MaxGestureTicks ticks at most; afterwards the hand     *)
(* holds a pinch, or is gone and stays away.                               *)
(***************************************************************************)
RotationFrames ==
    { Frame(0, 0, FALSE, FALSE, FALSE, ""),
      Frame(1, 5, FALSE, FALSE, FALSE, ""),
      Frame(1, 2, FALSE, TRUE, FALSE, "") }

RotationGap == DetectionInterval
MaxQuietTicks == 70

RotationFrame ==
    /\ controlTicks < MaxGestureTicks + MaxQuietTicks
    /\ \E f \in RotationFrames, d \in HandSamples :
           /\ f.fingerCount = 5 => controlTicks < MaxGestureTicks
           /\ (f.hands > 0 /\ controlTicks >= MaxGestureTicks) => lastTick.kind # "idle"
           /\ (f.hands = 0 \/ f.fingerCount # 5) => d = LoopHand
           /\ LET nowMs == timeNow + RotationGap
              IN  /\ timeNow' = nowMs
                  /\ videoTime' = VideoCurrentTime(nowMs)
                  /\ lastVideoTime' = VideoCurrentTime(nowMs)
                  /\ lastDetectionTime' = nowMs
                  /\ Animate(nowMs)
                  /\ ProcessGesturesControl(f, d, IdlePhase(controlTicks)[1],
                                            IdlePhase(controlTicks)[2])
    /\ UNCHANGED <<isPageVisible, webcam, detectScheduled, lastFrame, OtherGestureVars>>
    /\ UNCHANGED <<filterVars, swipeVars, callVars, unloadVars, forceVars, workerVars, cameraVars, memoVars>>

NextRotation == RotationFrame

SpecRotation == Init /\ [][NextRotation]_vars

(***************************************************************************)
(* SpecUnload: the camera is started or refused, the page is hidden and    *)
(* shown, detection is toggled, the detector is created and loaded, and    *)
(* the page is unloaded at any moment; nothing runs after the unload.      *)
(***************************************************************************)
NextUnload ==
    \/ /\ ~page.unloaded
       /\ \/ \E granted \in BOOLEAN : StartWebcam(granted)
          \/ RevokeCamera
          \/ VisibilityChange
          \/ ToggleGestures
          \/ InitAI
          \/ \E loadResult \in LoadResults : InitAIDone(loadResult)
    \/ BeforeUnload

SpecUnload == Init /\ [][NextUnload]_vars

NextLoop ==
    \/ \E granted \in BOOLEAN : StartWebcam(granted)
    \/ RevokeCamera
    \/ VisibilityChange
    \/ AnimationFrame

SpecLoop == Init /\ [][NextLoop]_vars

(***************************************************************************)
(* SpecFingers: countExtendedFingers applied to a hand and to the same     *)
(* hand scaled around its wrist, and the decision tree applied to the      *)
(* hand's finger count, detectFist, detectPinch and detectPeaceSign.       *)
(***************************************************************************)
FingerArgs ==
    { [hand |-> MakeHand(palm, thumbDist, yDiffs), k |-> k] :
        palm \in Palms, thumbDist \in ThumbDists, yDiffs \in FingerYDiffs,
        k \in ScaleFactors }

InitFingers ==
    /\ InitGesture /\ InitFilter /\ InitSwipe /\ InitControl /\ InitLoop /\ InitUnload /\ InitForce /\ InitWorker /\ InitCamera /\ InitMemo
    /\ args \in FingerArgs
    /\ returned = <<>>
    /\ called = FALSE

ApplyCount ==
    /\ ~called
    /\ returned' = [count |-> CountExtendedFingers(args.hand),
                    scaledCount |-> CountExtendedFingers(ScaleAroundWrist(args.hand, args.k)),
                    twice |-> TwiceHandScale(args.hand),
                    scaledTwice |-> TwiceHandScale(ScaleAroundWrist(args.hand, args.k)),
                    frame |-> FrameOfHand(args.hand),
                    branch |-> HandsBranch(FrameOfHand(args.hand))]
    /\ called' = TRUE
    /\ UNCHANGED <<args, gestureVars, filterVars, swipeVars, controlVars, loopVars, unloadVars, forceVars, workerVars, cameraVars, memoVars>>

NextFingers == ApplyCount

SpecFingers == InitFingers /\ [][NextFingers]_vars

(***************************************************************************)
(* SpecFilter: detection ticks on the filter bank.                         *)
(***************************************************************************)
NextFilter ==
    \E landmarks \in Frames, gap \in TickGaps :
        /\ filterClock + gap <= MaxClock
        /\ DetectHands(landmarks, gap)

SpecFilter == Init /\ [][NextFilter]_vars

(***************************************************************************)
(* SpecWorker: messages of every type sent to the gesture worker, model    *)
(* loads and classifications settling between them.                        *)
(***************************************************************************)
NextWorker ==
    \/ \E type \in MessageTypes, hasLandmarks \in BOOLEAN : OnMessage(type, hasLandmarks)
    \/ \E loadResult \in LoadResults : LoadSettles(loadResult)
    \/ \E threw \in BOOLEAN : ClassifySettles(threw)
    \/ CloseDiscards

SpecWorker == Init /\ [][NextWorker]_vars

(***************************************************************************)
(* SpecCamera: the hand landmarker and camera requests settling, clicks on *)
(* the start button, 'loadeddata' events and detectHands callbacks.        *)
(***************************************************************************)
NextCamera ==
    \/ \E ok \in BOOLEAN : InitHandDetectionDone(ok)
    \/ StartButtonClick
    \/ \E granted \in BOOLEAN : GetUserMediaDone(granted)
    \/ PlayRejected
    \/ LoadedData
    \/ DetectHandsFrame

SpecCamera == Init /\ [][NextCamera]_vars

(***************************************************************************)
(* SpecChannels: detection ticks on the control channels with a hand that  *)
(* holds its pose for ChannelHold ticks: five open fingers, a fist or one  *)
(* finger, far and open (avgHandSize 0, openness 0.5) or near and closed   *)
(* (avgHandSize 0.5, openness 0), or no hand with Math.sin(t) at 1 or -1.  *)
(* args is the input of the current pose.                                  *)
(***************************************************************************)
MaxChannelTicks == 30
ChannelHold == 10

ChannelHands ==
    { HandData(Ratio(1, 2), FlZero, FlZero, <<FlZero, FlZero>>, VectorZero, FlZero, FlZero),
      HandData(FlZero, Ratio(1, 2), FlZero, <<FlZero, FlZero>>, VectorZero, FlZero, FlZero) }

ChannelInputs ==
    [f : {Frame(1, 5, FALSE, FALSE, FALSE, ""), Frame(1, 0, TRUE, FALSE, FALSE, ""),
          Frame(1, 1, FALSE, FALSE, FALSE, "")},
     d : ChannelHands, sinT : {FlZero}]
    \cup [f : {Frame(0, 0, FALSE, FALSE, FALSE, "")}, d : {LoopHand},
          sinT : {FlOne, FlNeg(FlOne)}]

ChannelTick ==
    /\ controlTicks < MaxChannelTicks
    /\ \E input \in ChannelInputs :
           /\ controlTicks % ChannelHold # 0 => input = args
           /\ args' = input
           /\ ProcessGesturesControl(input.f, input.d, input.sinT, FlZero)
    /\ UNCHANGED <<returned, called, OtherGestureVars>>
    /\ UNCHANGED <<filterVars, swipeVars, loopVars, unloadVars, forceVars, workerVars, cameraVars, memoVars>>

NextChannels == ChannelTick

SpecChannels == Init /\ [][NextChannels]_vars

(***************************************************************************)
(* SpecMemo: animation frames, with and without a detection tick, until    *)
(* MaxFramesAfterWrap ticks after frameId has wrapped around.              *)
(***************************************************************************)
NextMemo == MemoTick

SpecMemo == Init /\ [][NextMemo]_vars

(***************************************************************************)
(* SpecSlots: detection ticks with zero, one or two hands, and clicks on   *)
(* the gesture toggle between them.                                        *)
(***************************************************************************)
MaxSlotClock == 200

NextSlots ==
    \/ \E landmarks \in Frames, gap \in TickGaps :
           /\ filterClock + gap <= MaxSlotClock
           /\ DetectHands(landmarks, gap)
    \/ ToggleGestures

SpecSlots == Init /\ [][NextSlots]_vars

(***************************************************************************)
(* SpecSteady: detection ticks that feed one key the same raw value at     *)
(* every tick, at varying intervals.                                       *)
(***************************************************************************)
NextSteady ==
    \E value \in SteadyValues, gap \in SteadyGaps :
        /\ filterClock + gap <= MaxSteadyClock
        /\ filterClock > 0 => filterIn[<<0, TipIndex, "x">>] = value
        /\ DetectHands(<<[pt \in TrackedPoints |-> value]>>, gap)

SpecSteady == Init /\ [][NextSteady]_vars

(***************************************************************************)
(* SpecSwipe: detection ticks on the swipe state.                          *)
(***************************************************************************)
NextSwipe ==
    \E gap \in SwipeGaps :
        /\ swipeClock + gap <= MaxSwipeClock
        /\ \/ \E currentX \in WristXs : FiveFingerFrame(currentX, gap)
           \/ HandsLost(gap)
           \/ OtherGesture(gap)

SpecSwipe == Init /\ [][NextSwipe]_vars

(***************************************************************************)
(* SpecRules: the decision tree applied to every combination of finger     *)
(* count, flags and swipe result.                                          *)
(***************************************************************************)
RuleArgs ==
    [fingerCount : FingerCounts, isFist : BOOLEAN, isPinching : BOOLEAN,
     isPeaceSign : BOOLEAN, swipeDirection : SwipeDirections]

InitRules ==
    /\ InitGesture /\ InitFilter /\ InitSwipe /\ InitControl /\ InitLoop /\ InitUnload /\ InitForce /\ InitWorker /\ InitCamera /\ InitMemo
    /\ args \in RuleArgs
    /\ returned = <<>>
    /\ called = FALSE

ApplyRules ==
    /\ ~called
    /\ returned' = RuleBasedGesture(args.fingerCount, args.isFist, args.isPinching,
                                    args.isPeaceSign, args.swipeDirection)
    /\ called' = TRUE
    /\ UNCHANGED <<args, gestureVars, filterVars, swipeVars, controlVars, loopVars, unloadVars, forceVars, workerVars, cameraVars, memoVars>>

NextRules == ApplyRules

SpecRules == InitRules /\ [][NextRules]_vars

(***************************************************************************)
(* SpecCommit: commitGestureState applied to every gestureState with a     *)
(* confidence in [0, 1], every committed label and every intensity that    *)
(* processGestures passes.                                                 *)
(***************************************************************************)
CommitLabels == {"Auto Mode", "Gestures Disabled", "Collapse"}
CommitIntensities ==
    {DisabledIntensity, NoHandsIntensity} \cup {GestureEnergy(extra) : extra \in EnergyExtras}

CommitArgs ==
    [gs : [active : CommitLabels, confidence : 0 .. ConfidenceOne],
     label : CommitLabels, intensity : CommitIntensities]

InitCommit ==
    /\ InitGesture /\ InitFilter /\ InitSwipe /\ InitControl /\ InitLoop /\ InitUnload /\ InitForce /\ InitWorker /\ InitCamera /\ InitMemo
    /\ args \in CommitArgs
    /\ returned = <<>>
    /\ called = FALSE

ApplyCommit ==
    /\ ~called
    /\ returned' = CommitGestureState(args.gs, args.label, args.intensity)
    /\ called' = TRUE
    /\ UNCHANGED <<args, gestureVars, filterVars, swipeVars, controlVars, loopVars, unloadVars, forceVars, workerVars, cameraVars, memoVars>>

NextCommit == ApplyCommit

SpecCommit == InitCommit /\ [][NextCommit]_vars

(***************************************************************************)
(* SpecSustain: commitGestureState called tick after tick with one label,  *)
(* args.label, from every gestureState with a confidence in [0, 1]; the    *)
(* intensity may change from call to call.  returned holds the current     *)
(* gestureState, the number of calls made and the call at which            *)
(* gestureState.active became the label (0: it was active at the start,    *)
(* -1: not yet).                                                           *)
(***************************************************************************)
MaxSustainTicks == 15

InitSustain ==
    /\ InitGesture /\ InitFilter /\ InitSwipe /\ InitControl /\ InitLoop /\ InitUnload /\ InitForce /\ InitWorker /\ InitCamera /\ InitMemo
    /\ args \in [gs : [active : CommitLabels, confidence : 0 .. ConfidenceOne], label : CommitLabels]
    /\ returned = [gs |-> args.gs, ticks |-> 0, switchedAt |-> IF args.gs.active = args.label THEN 0 ELSE -1]
    /\ called = FALSE

SustainTick ==
    /\ returned.ticks < MaxSustainTicks
    /\ \E intensity \in CommitIntensities :
           LET gs == CommitGestureState(returned.gs, args.label, intensity)
           IN  returned' = [gs |-> gs, ticks |-> returned.ticks + 1,
                            switchedAt |-> IF returned.switchedAt < 0 /\ gs.active = args.label
                                           THEN returned.ticks + 1
                                           ELSE returned.switchedAt]
    /\ called' = TRUE
    /\ UNCHANGED <<args, gestureVars, filterVars, swipeVars, controlVars, loopVars, unloadVars, forceVars, workerVars, cameraVars, memoVars>>

NextSustain == SustainTick

SpecSustain == InitSustain /\ [][NextSustain]_vars

(***************************************************************************)
(* SpecMixed: commitGestureState called tick after tick, from the initial  *)
(* gestureState, with a label and an intensity that change freely from     *)
(* call to call; the labels include the finger-count labels, which differ  *)
(* with the count.  returned holds the current gestureState, the number of *)
(* calls, the label of the last call, the gestureState before it, and the  *)
(* labels of the earlier calls since the last switch that differed from    *)
(* the active label.                                                       *)
(***************************************************************************)
MaxMixedTicks == 14
MixedLabels == {"Auto Mode", "Collapse", FingersLabel(2), FingersLabel(3), FingersLabel(4)}

InitMixed ==
    /\ InitGesture /\ InitFilter /\ InitSwipe /\ InitControl /\ InitLoop /\ InitUnload /\ InitForce /\ InitWorker /\ InitCamera /\ InitMemo
    /\ args = <<>>
    /\ returned = [gs |-> gestureState, before |-> gestureState, ticks |-> 0, label |-> "",
                   earlier |-> {}]
    /\ called = FALSE

MixedTick ==
    /\ returned.ticks < MaxMixedTicks
    /\ \E label \in MixedLabels, intensity \in CommitIntensities :
           returned' = [gs |-> CommitGestureState(returned.gs, label, intensity),
                        before |-> returned.gs,
                        ticks |-> returned.ticks + 1,
                        label |-> label,
                        earlier |-> IF returned.gs.active # returned.before.active
                                    THEN {}
                                    ELSE IF returned.ticks > 0 /\ returned.label # returned.before.active
                                         THEN returned.earlier \cup {returned.label}
                                         ELSE returned.earlier]
    /\ called' = TRUE
    /\ UNCHANGED <<args, gestureVars, filterVars, swipeVars, controlVars, loopVars, unloadVars, forceVars, workerVars, cameraVars, memoVars>>

NextMixed == MixedTick

SpecMixed == InitMixed /\ [][NextMixed]_vars

(***************************************************************************)
(* SpecFusion: detect applied to every detector state, landmark list,      *)
(* rule-based gesture and classifier behaviour.                            *)
(***************************************************************************)
DetectorStates ==
    { [exists |-> TRUE, isInitialized |-> FALSE, useAI |-> FALSE, isReady |-> FALSE],
      [exists |-> TRUE, isInitialized |-> TRUE, useAI |-> FALSE, isReady |-> FALSE],
      [exists |-> TRUE, isInitialized |-> TRUE, useAI |-> TRUE, isReady |-> TRUE] }

FusionProbs == {0, 74, 75, 79, 80, 81, 100}

FusionArgs ==
    [det : DetectorStates, landmarksEmpty : BOOLEAN,
     rb : {[name |-> "None", confidence |-> 50], [name |-> "Collapse", confidence |-> 90],
           [name |-> "3 Fingers", confidence |-> 70]},
     featureError : BOOLEAN, predictError : BOOLEAN, maxProb : FusionProbs,
     gestureIndex : {1, Len(Gestures)}]

AIGestureOf(a) ==
    Classify(a.det.isReady, a.landmarksEmpty, a.featureError, a.predictError, a.maxProb,
             a.gestureIndex, ClassifyThreshold)

InitFusion ==
    /\ InitGesture /\ InitFilter /\ InitSwipe /\ InitControl /\ InitLoop /\ InitUnload /\ InitForce /\ InitWorker /\ InitCamera /\ InitMemo
    /\ args \in FusionArgs
    /\ returned = <<>>
    /\ called = FALSE

ApplyDetect ==
    /\ ~called
    /\ returned' = Detect(args.det, args.landmarksEmpty, args.rb, AIGestureOf(args))
    /\ called' = TRUE
    /\ UNCHANGED <<args, gestureVars, filterVars, swipeVars, controlVars, loopVars, unloadVars, forceVars, workerVars, cameraVars, memoVars>>

NextFusion == ApplyDetect

SpecFusion == InitFusion /\ [][NextFusion]_vars

(***************************************************************************)
(* C1.  A single differing classification amid calls that carry the active *)
(* label does not change gestureState.active: when the call before the     *)
(* last one carried the label that was then active, the last call, with    *)
(* whatever label, left gestureState.active as it was.                     *)
(***************************************************************************)
C1_SingleForeignFrameKeepsActive == prevAgreed => ~switched

C1_Witness ==
    /\ prevAgreed
    /\ lastLabel # gestureState.active
    /\ ~switched

(***************************************************************************)
(* C2.  gestureState.confidence stays within [0, 1] whatever labels and    *)
(* intensities processGestures commits.                                    *)
(***************************************************************************)
C2_ConfidenceInUnitInterval ==
    gestureState.confidence >= 0 /\ gestureState.confidence <= ConfidenceOne

C2_Witness ==
    /\ switched
    /\ gestureState.confidence = ModeEnter + GestureEnergy(40)

(***************************************************************************)
(* C3.  On the first detection with hands after detections without hands,  *)
(* every filtered landmark coordinate equals its raw input: nothing of the *)
(* filters from before the gap is used.                                    *)
(***************************************************************************)
C3_FirstValueAfterGapIsRaw ==
    (gapBefore # "no" /\ handsSeen > 0) =>
        \A key \in DOMAIN filterOut : filterOut[key] = filterIn[key]

C3_Witness ==
    /\ gapBefore = "cleared"
    /\ handsSeen = 2
    /\ \A key \in DOMAIN filterOut : filterOut[key] = filterIn[key]

(***************************************************************************)
(* C4.  The first filter call for a key, that is a call on a key that was  *)
(* not in landmarkFilterBank, returns the raw value.                       *)
(***************************************************************************)
C4_FirstCallReturnsRaw ==
    \A key \in DOMAIN filterFresh : filterFresh[key] => filterOut[key] = filterIn[key]

C4_Witness ==
    /\ handsSeen = 2 /\ filterFresh[<<1, TipIndex, "x">>] /\ ~filterFresh[<<0, TipIndex, "x">>]
    /\ filterOut[<<1, TipIndex, "x">>] = filterIn[<<1, TipIndex, "x">>]
    /\ filterOut[<<0, TipIndex, "x">>] # filterIn[<<0, TipIndex, "x">>]

(***************************************************************************)
(* C5, as stated.  While every raw value fed to a key since its creation   *)
(* is the same, the value the filter returns is that raw value.            *)
(***************************************************************************)
C5_ConstantInputIsReturned ==
    \A key \in DOMAIN landmarkFilterBank :
        landmarkFilterBank[key].same
            => landmarkFilterBank[key].out = landmarkFilterBank[key].first

(***************************************************************************)
(* C5, amended.  While every raw value fed to a key since its creation is  *)
(* the same, the first value the filter returns is that raw value, and     *)
(* every later one differs from it by rounding only: at detection          *)
(* intervals of detectionInterval or more, by at most 12 units in the last *)
(* place of the raw value.  With u the unit roundoff and e the error of    *)
(* prev, alpha * v + (1 - alpha) * prev is off by at most                  *)
(* (1 - alpha) e + (3 - alpha) u v, and alpha >= 0.239 at 20 Hz and below. *)
(***************************************************************************)
UlpsApart(x, y, k) == ~FlLess(Round(k, y[2]), FlAbs(FlSub(x, y)))

C5_ConstantInputWithinRounding ==
    \A key \in DOMAIN landmarkFilterBank :
        landmarkFilterBank[key].same
            => /\ landmarkFilterBank[key].calls = 1
                    => landmarkFilterBank[key].out = landmarkFilterBank[key].first
               /\ UlpsApart(landmarkFilterBank[key].out, landmarkFilterBank[key].first, 12)

C5_Witness ==
    \E key \in DOMAIN landmarkFilterBank :
        /\ landmarkFilterBank[key].same
        /\ landmarkFilterBank[key].calls >= 3
        /\ landmarkFilterBank[key].out # landmarkFilterBank[key].first
        /\ UlpsApart(landmarkFilterBank[key].out, landmarkFilterBank[key].first, 12)

(***************************************************************************)
(* C6, as stated.  A five-finger wrist trajectory that has moved           *)
(* monotonically right by more than swipeThreshold with average velocity   *)
(* above swipeVelocityMin has emitted exactly one swipe-right event, and   *)
(* no swipe event follows another within swipeCooldown.                    *)
(***************************************************************************)
C6_MonotoneRightEmitsOneSwipe ==
    /\ (/\ traj.on
         /\ traj.lastX - traj.startX > SwipeThreshold
         /\ (traj.lastX - traj.startX) * 1000
                > SwipeVelocityMin * (traj.lastTime - traj.startTime))
            => traj.events = 1 /\ lastSwipe.direction = "right"
    /\ lastSwipe.gap = -1 \/ lastSwipe.gap >= SwipeCooldown

(***************************************************************************)
(* C6, amended.  detectSwipe measures displacement and average velocity    *)
(* from the start of its current window, which it records on the first     *)
(* call after a swipe or moves to the current position when 1.5 s have     *)
(* passed without a swipe.  Outside the cooldown, a call that finds the    *)
(* wrist more than swipeThreshold to the right (left) of the window start  *)
(* with average velocity over the window above swipeVelocityMin emits      *)
(* exactly one swipe-right (swipe-left) event, no other call emits one,    *)
(* and no swipe event follows another within swipeCooldown.                *)
(***************************************************************************)
C6_Crossed ==
    /\ ~swipeCall.cooling
    /\ swipeCall.hadStart
    /\ Abs(swipeCall.totalDelta) > SwipeThreshold
    /\ Abs(swipeCall.totalDelta) * 1000 > SwipeVelocityMin * Max(swipeCall.timeDelta, 1)

C6_WindowSwipeOncePerCooldown ==
    /\ swipeCall.made =>
            /\ swipeCall.direction = "right" <=> (C6_Crossed /\ swipeCall.totalDelta > 0)
            /\ swipeCall.direction = "left" <=> (C6_Crossed /\ swipeCall.totalDelta < 0)
    /\ lastSwipe.gap = -1 \/ lastSwipe.gap >= SwipeCooldown

C6_Witness ==
    /\ lastSwipe.direction = "right"
    /\ swipeCall.made /\ swipeCall.cooling /\ swipeCall.direction = ""
    /\ swipeStartX = -1
    /\ swipeClock - lastSwipeTime < SwipeCooldown

(***************************************************************************)
(* C7.  The label emitted for the primary hand is the label of the first   *)
(* rule that matches, in the order: five fingers (swipe, else rotate and   *)
(* expand), fist, pinch, peace sign, exactly one finger, wind.             *)
(***************************************************************************)
C7_Priority(a) ==
    <<  <<a.fingerCount = 5 /\ a.swipeDirection = "right", "Swipe Right">>,
        <<a.fingerCount = 5 /\ a.swipeDirection = "left", "Swipe Left">>,
        <<a.fingerCount = 5, "Rotate + Expand">>,
        <<a.isFist, "Collapse">>,
        <<a.isPinching, "Pinch (Attract)">>,
        <<a.isPeaceSign, "Peace (Pulse)">>,
        <<a.fingerCount = 1, "One Finger (Collapse)">>,
        <<TRUE, FingersLabel(a.fingerCount)>>  >>

C7_FirstMatch(a) ==
    LET rules == C7_Priority(a)
        first == CHOOSE i \in 1 .. Len(rules) :
                    rules[i][1] /\ \A j \in 1 .. i - 1 : ~rules[j][1]
    IN  rules[first][2]

C7_FirstMatchingRuleWins == called => returned.name = C7_FirstMatch(args)

C7_Witness ==
    /\ called
    /\ args.fingerCount = 1 /\ args.isFist /\ args.isPinching /\ args.isPeaceSign
    /\ returned.name = "Collapse"

(***************************************************************************)
(* C8.  detect returns the external classifier's gesture exactly when the  *)
(* detector is initialised, uses AI, the landmark list is not empty and    *)
(* the classifier returned a value whose confidence is strictly above 0.8; *)
(* when the detector is uninitialised or not using AI, the landmarks are   *)
(* empty, the classifier returned null or its confidence is at most 0.8,   *)
(* detect returns the rule-based name and confidence, source 'rule-based'. *)
(***************************************************************************)
C8_Consulted(a) == a.det.isInitialized /\ a.det.useAI /\ ~a.landmarksEmpty

C8_FusionByStrictThreshold ==
    called =>
        LET ai == AIGestureOf(args)
        IN  /\ (C8_Consulted(args) /\ ai.kind = "value" /\ ai.confidence > 80)
                => /\ returned.source = "AI"
                   /\ returned.gesture = ai.gesture
                   /\ returned.confidence = ai.confidence
            /\ (\/ ~C8_Consulted(args)
                \/ ai.kind = "null"
                \/ (ai.kind = "value" /\ ai.confidence <= 80))
                => /\ returned.settled = "fulfilled"
                   /\ returned.source = "rule-based"
                   /\ returned.gesture = args.rb.name
                   /\ returned.confidence = args.rb.confidence

C8_Witness ==
    /\ called
    /\ C8_Consulted(args)
    /\ AIGestureOf(args).kind = "value"
    /\ AIGestureOf(args).confidence = 80
    /\ returned.source = "rule-based"

(***************************************************************************)
(* C9.  A label the external classifier's callback wrote into the shared   *)
(* gesture label before a detection tick with hands is the label that tick *)
(* passes to commitGestureState.                                           *)
(***************************************************************************)
C9_AILabelConsumedByNextTick ==
    (aiSeenByTick # "" /\ lastRule # "") => lastLabel = aiSeenByTick

(***************************************************************************)
(* C10.  No failure of the external classifier leaves the gesture tick:    *)
(* a rejected detect promise is handled, a failed model load leaves AI     *)
(* switched off with the detector initialised, and every tick with hands   *)
(* commits its rule-based label.                                           *)
(***************************************************************************)
C10_ClassifierFailureContained ==
    /\ ~unhandledRejection
    /\ (aiLoad = "done" =>
            enhancedDetector.isInitialized /\ aiEnabled = enhancedDetector.useAI)
    /\ (lastRule # "" => lastLabel = lastRule)

C10_Witness ==
    /\ aiFailure = "throw"
    /\ lastRule # ""
    /\ lastLabel = lastRule

(***************************************************************************)
(* C11.  On a detection tick that takes an idle branch (gestures disabled  *)
(* or no hands) the magnitudes of smoothedAttractorStrength,                *)
(* smoothedWindForce and smoothedPulse do not increase, and each one that   *)
(* is not zero strictly decreases.  The wind force is compared component   *)
(* by component: no component grows in magnitude, and the length shrinks   *)
(* exactly when some component does.                                       *)
(***************************************************************************)
IdleKinds == {"idle", "disabled"}

NotLarger(after, before) == ~Below(FlAbs(before), FlAbs(after))
Smaller(after, before) == Below(FlAbs(after), FlAbs(before))

NoChannelGrows ==
    /\ NotLarger(smoothed.smoothedAttractorStrength, lastTick.before.smoothedAttractorStrength)
    /\ NotLarger(smoothed.smoothedPulse, lastTick.before.smoothedPulse)
    /\ \A i \in 1 .. 3 :
           NotLarger(smoothed.smoothedWindForce[i], lastTick.before.smoothedWindForce[i])

(* Every channel whose magnitude was at least floor has shrunk. *)
ShrinksFrom(floor) ==
    /\ ~Below(FlAbs(lastTick.before.smoothedAttractorStrength), floor)
           => Smaller(smoothed.smoothedAttractorStrength,
                      lastTick.before.smoothedAttractorStrength)
    /\ ~Below(FlAbs(lastTick.before.smoothedPulse), floor)
           => Smaller(smoothed.smoothedPulse, lastTick.before.smoothedPulse)
    /\ (\E i \in 1 .. 3 : ~Below(FlAbs(lastTick.before.smoothedWindForce[i]), floor))
           => \E i \in 1 .. 3 : Smaller(smoothed.smoothedWindForce[i],
                                         lastTick.before.smoothedWindForce[i])

LeastPositive == <<1, MinExponent>>

C11_IdleTickShrinksEveryNonzeroChannel ==
    lastTick.kind \in IdleKinds => NoChannelGrows /\ ShrinksFrom(LeastPositive)

(***************************************************************************)
(* C11, as the arithmetic allows it.  On an idle tick no magnitude          *)
(* increases, and each magnitude of at least eleven times the least         *)
(* positive number strictly decreases: the product by 0.95 of a smaller     *)
(* subnormal number rounds back to the number itself.                      *)
(***************************************************************************)
DecayFloor == <<11, MinExponent>>

C11_IdleTickShrinksAboveFloor ==
    lastTick.kind \in IdleKinds => NoChannelGrows /\ ShrinksFrom(DecayFloor)

C11_Witness ==
    /\ lastTick.kind = "idle"
    /\ ~Below(lastTick.before.smoothedAttractorStrength, DecayFloor)
    /\ \E i \in 1 .. 3 : ~Below(FlAbs(lastTick.before.smoothedWindForce[i]), DecayFloor)
    /\ Smaller(smoothed.smoothedAttractorStrength, lastTick.before.smoothedAttractorStrength)

(***************************************************************************)
(* C12.  On a tick that processes a hand gesture every control channel     *)
(* moves only by current += (target - current) * factor: the channels      *)
(* after the tick are those before it, each smoothed once towards the      *)
(* tick's target (the product of the swirl by 0.95 is its step towards 0   *)
(* by the factor 0.05), and no channel is assigned in any other way.       *)
(***************************************************************************)
C12_GestureTickOnlySmooths ==
    lastTick.kind \notin IdleKinds \cup {""}
        => smoothed = SmoothChannels(lastTick.before, lastTick.target, lastTick.twoHands)

(***************************************************************************)
(* C20.  On a tick whose primary hand does not show five fingers and is a  *)
(* fist, processGestures emits the rotate gesture and drives               *)
(* targetRotationSpeed from the palm twist (rotationGestureActive).        *)
(***************************************************************************)
C20_FistEmitsRotate ==
    lastTick.kind = "fist" => currentGesture = "Rotate + Expand" /\ lastTick.active

(***************************************************************************)
(* C20, as the code has it.  A fist tick emits Collapse, slows time to     *)
(* 0.7, drops the twist sample and lets targetRotationSpeed decay towards  *)
(* the base speed; the twist drives the rotation only on a tick that       *)
(* emits Rotate + Expand (five fingers, no swipe).                         *)
(***************************************************************************)
C20_FistCollapsesOpenHandRotates ==
    /\ lastTick.kind = "fist"
           => /\ currentGesture = "Collapse"
              /\ freezeTimeTarget = Ratio(7, 10)
              /\ prevFistAngle = "null"
              /\ targetRotationSpeed = DecayRotationTarget(lastTick.targetBefore)
    /\ lastTick.active => lastTick.kind = "rotate" /\ currentGesture = "Rotate + Expand"

C20_Witness ==
    /\ lastTick.kind = "fist"
    /\ lastTick.angleBefore # "null"
    /\ currentGesture = "Collapse"

(***************************************************************************)
(* C13.  Two consecutive executions of the detection block are at least    *)
(* detectionInterval (1000 / 20 = 50 ms) apart, whatever the gaps between  *)
(* the animation frames, and animate has run on every frame (its clock     *)
(* was read at the frame's time) whether or not the detection block ran.   *)
(***************************************************************************)
C13_DetectionsThrottledRenderEveryFrame ==
    /\ lastFrame.detected
           => /\ lastDetectionTime = timeNow
              /\ timeNow - lastFrame.prevDetection >= DetectionInterval
    /\ lastFrame.kind = "frame" => clockOldTime = timeNow

C13_Witness ==
    /\ lastFrame.kind = "frame"
    /\ lastFrame.detected
    /\ lastFrame.prevDetection > 0
    /\ timeNow - lastFrame.prevDetection = DetectionInterval

(***************************************************************************)
(* C14.  While the page is not visible no step changes the filter bank,    *)
(* the gesture state, the control channels, the simulation time or the     *)
(* rotation.                                                               *)
(***************************************************************************)
C14_NothingAdvancesWhileHidden ==
    [][~isPageVisible
          => UNCHANGED <<landmarkFilterBank, gestureState, currentGesture, smoothed,
                         targetRotationSpeed, uTime, uFreezeTime, smoothedRotationSpeed,
                         cosmicRotation>>]_vars

(***************************************************************************)
(* C15.  The delta a frame's animate uses is at most 0.1 s, and uTime      *)
(* advances on a frame by no more than the step of a 0.1 s delta.          *)
(***************************************************************************)
MaxDelta == Ratio(1, 10)

C15_DeltaCapped ==
    lastFrame.kind = "frame"
        => /\ ~Below(MaxDelta, lastFrame.delta)
           /\ ~Below(Plus(lastFrame.uTimeBefore, Times(MaxDelta, uFreezeTime)), uTime)

(***************************************************************************)
(* C16.  While the camera does not stream (never started, refused or       *)
(* ended), every animation frame keeps driving the idle behaviour: an      *)
(* attractor strength that has not yet decayed away is smaller after the   *)
(* frame.                                                                  *)
(***************************************************************************)
C16_FramesDecayWithoutDetection ==
    [][(/\ webcam # "streaming"
        /\ timeNow' > timeNow
        /\ ~Below(FlAbs(smoothed.smoothedAttractorStrength), DecayFloor))
          => Smaller(smoothed'.smoothedAttractorStrength,
                     smoothed.smoothedAttractorStrength)]_vars

(***************************************************************************)
(* C17.  A detection tick whose result holds a hand with missing points,   *)
(* and on which nothing else fails, throws nothing and takes the no-hands  *)
(* branch of processGestures: the tick is counted, it is an idle tick and  *)
(* it leaves the auto label.                                               *)
(***************************************************************************)
C17_PartialHandTakesIdlePath ==
    (lastFrame.partial /\ lastFrame.failure = "")
        => /\ lastFrame.thrown = ""
           /\ controlTicks = lastFrame.ticksBefore + 1
           /\ lastTick.kind = "idle"
           /\ currentGesture = "Auto Mode"

(***************************************************************************)
(* C18.  Once detectHands has been started a call of it is always          *)
(* outstanding: every invocation, whatever its try block threw, has        *)
(* registered the next one.                                                *)
(***************************************************************************)
C18_DetectHandsAlwaysRescheduled ==
    webcam \in {"streaming", "revoked"} => detectScheduled

C18_Witness ==
    /\ lastFrame.kind = "frame"
    /\ lastFrame.detected
    /\ lastFrame.thrown = "process"
    /\ currentGesture = "None"
    /\ detectScheduled

(***************************************************************************)
(* C19.  countExtendedFingers returns the same count for a hand and for    *)
(* the hand with all its points scaled by a positive factor around the     *)
(* wrist.                                                                  *)
(***************************************************************************)
C19_CountInvariantUnderScaling ==
    called => returned.count = returned.scaledCount

(***************************************************************************)
(* C21.  The wind branch of processGestures is taken only for a primary    *)
(* hand that shows 2, 3 or 4 extended fingers and is no fist, no pinch and *)
(* no peace sign.                                                          *)
(***************************************************************************)
C21_WindOnlyForTwoToFourFingers ==
    (called /\ returned.branch = "fingers") =>
        /\ returned.frame.fingerCount \in 2 .. 4
        /\ ~returned.frame.isFist
        /\ ~returned.frame.isPinching
        /\ ~returned.frame.isPeaceSign

(***************************************************************************)
(* C22.  When detectSwipe runs, past the cooldown, on a five-finger frame  *)
(* that follows a tick without a five-finger primary hand (no hands,       *)
(* detection disabled, another gesture), the displacement is measured from *)
(* that frame: no start recorded in an earlier five-finger episode is used *)
(* and the window starts at the frame's wrist x and time.                  *)
(***************************************************************************)
C22_WindowStartsAtFirstFiveFingerFrame ==
    [][(swipeTick \in {"idle", "other"} /\ swipeTick' = "five" /\ ~swipeCall'.cooling)
          => (~swipeCall'.hadStart /\ swipeStartTime' = swipeClock')]_vars

(***************************************************************************)
(* C23.  The formation index stays within [0, shapes.length); a swipe      *)
(* right selects the next formation and a swipe left the previous one,     *)
(* cyclically; from every index reached, right then left restores the      *)
(* index and shapes.length swipes right return to it.                      *)
(***************************************************************************)
RECURSIVE C23_Rights(_, _)
C23_Rights(index, n) ==
    IF n = 0 THEN index ELSE C23_Rights(ChangeShape(index, "right"), n - 1)

C23_NextFormation(index) == IF index = ShapesLength - 1 THEN 0 ELSE index + 1
C23_PreviousFormation(index) == IF index = 0 THEN ShapesLength - 1 ELSE index - 1

C23_SwipesCycleFormations ==
    [][/\ currentShapeIndex' \in 0 .. ShapesLength - 1
       /\ (swipeTick' = "five" /\ swipeCall'.direction = "right")
             => currentShapeIndex' = C23_NextFormation(currentShapeIndex)
       /\ (swipeTick' = "five" /\ swipeCall'.direction = "left")
             => currentShapeIndex' = C23_PreviousFormation(currentShapeIndex)
       /\ (swipeTick' = "five" /\ swipeCall'.direction = "")
             => currentShapeIndex' = currentShapeIndex
       /\ ChangeShape(ChangeShape(currentShapeIndex', "right"), "left") = currentShapeIndex'
       /\ ChangeShape(ChangeShape(currentShapeIndex', "left"), "right") = currentShapeIndex'
       /\ C23_Rights(currentShapeIndex', ShapesLength) = currentShapeIndex']_vars

C23_Witness ==
    /\ swipeTick = "five"
    /\ swipeCall.direction = "left"
    /\ lastSwipe.gap >= SwipeCooldown
    /\ currentShapeIndex = 0

(***************************************************************************)
(* C27.  After the page unload handler has run, the tracks of the camera   *)
(* stream are stopped when a stream was attached, and every acquired       *)
(* resource is disposed: the particle and background geometries, the       *)
(* materials, the texture, the renderer, and the detector when one exists. *)
(***************************************************************************)
C27_UnloadReleasesEverything ==
    page.unloaded =>
        /\ StreamAttached => page.tracksStopped
        /\ {DisposeOrder[i] : i \in 1 .. Len(DisposeOrder)} \subseteq page.disposed
        /\ enhancedDetector.exists => page.detectorDisposed

(***************************************************************************)
(* C28.  A commit changes gestureState.active only if the observed label   *)
(* differs from it and the confidence, after the decay by 0.05, is at most *)
(* the exit threshold 0.35; in that case active becomes the observed label *)
(* and the confidence becomes 0.6 + intensity; on every other commit of a  *)
(* differing label active is kept and the confidence is the decayed one.   *)
(***************************************************************************)
C28_Decayed == Max(0, args.gs.confidence - ModeDecay)

C28_ActiveChangesOnlyAtExit ==
    called =>
        /\ returned.active # args.gs.active
              => (args.label # args.gs.active /\ C28_Decayed <= ModeExit)
        /\ (args.label # args.gs.active /\ C28_Decayed <= ModeExit)
              => returned = [active |-> args.label,
                             confidence |-> ModeEnter + args.intensity]
        /\ (args.label # args.gs.active /\ C28_Decayed > ModeExit)
              => returned = [active |-> args.gs.active, confidence |-> C28_Decayed]

C28_Witness ==
    /\ called
    /\ args.label # args.gs.active
    /\ args.gs.confidence = ModeExit + ModeDecay
    /\ returned.active = args.label
    /\ returned.confidence = ModeEnter + GestureEnergy(40)

(***************************************************************************)
(* C29.  A detectSwipe call that finds the window older than 1.5 s and no  *)
(* threshold crossed moves the window start (position and time) to the     *)
(* current wrist position, and no call emits a swipe on a displacement     *)
(* measured over a window older than 1.5 s.                                *)
(***************************************************************************)
C29_Measured == swipeTick = "five" /\ swipeCall.made /\ ~swipeCall.cooling /\ swipeCall.hadStart

C29_NoSwipeOverStaleWindow ==
    C29_Measured =>
        /\ (swipeCall.direction = "" /\ swipeCall.timeDelta > SwipeWindowMs)
              => (swipeStartTime = swipeClock /\ swipeStartX = prevHandX)
        /\ swipeCall.direction # "" => swipeCall.timeDelta <= SwipeWindowMs

(***************************************************************************)
(* C30.  On a tick without hands or with detection disabled, attractor,    *)
(* wind and pulse decay faster than active smoothing would: each channel   *)
(* of magnitude at least 0.01 ends the tick strictly smaller than one      *)
(* hands-present smoothing step towards the target zero (factors 0.15,     *)
(* 0.1 and 0.1) would have left it.                                        *)
(***************************************************************************)
C30_Significant(x) == ~Below(FlAbs(x), Ratio(1, 100))

C30_Faster(after, before, factor) ==
    C30_Significant(before) => Smaller(after, Lerp(before, FlZero, factor))

C30_IdleDecayFasterThanSmoothing ==
    lastTick.kind \in IdleKinds =>
        /\ C30_Faster(smoothed.smoothedAttractorStrength,
                      lastTick.before.smoothedAttractorStrength, GestureSmoothingFactor)
        /\ \A i \in 1 .. 3 :
               C30_Faster(smoothed.smoothedWindForce[i], lastTick.before.smoothedWindForce[i],
                          WindSmoothingFactor)
        /\ C30_Faster(smoothed.smoothedPulse, lastTick.before.smoothedPulse, SmoothingFactor)

(***************************************************************************)
(* C31.  On every detection tick without an active rotation gesture the    *)
(* rotation-speed target ends between its old value and the base rotation  *)
(* speed 0.05, never beyond it, and strictly closer to the base when it was *)
(* at least 0.01 away; the target always lies within                        *)
(* [-maxGestureRotationSpeed, +maxGestureRotationSpeed]; and after 60       *)
(* consecutive such ticks the smoothed rotation speed is positive and       *)
(* within 0.01 of the base (the last few units of rounding are never        *)
(* removed by the update).                                                  *)
(***************************************************************************)
C31_Tolerance == Ratio(1, 100)
C31_FromBase(x) == FlAbs(Minus(x, BaseRotationSpeed))
C31_Between(x, a, b) == ~Below(x, MathMin(a, b)) /\ ~Below(MathMax(a, b), x)
C31_Quiet == lastTick.kind # "" /\ ~lastTick.active

C32_SwitchBound == (ConfidenceOne - ModeExit) \div ModeDecay

C32_SustainedLabelWins ==
    /\ returned.ticks >= C32_SwitchBound => returned.gs.active = args.label
    /\ returned.switchedAt >= 0 => returned.gs.active = args.label

C32_Witness ==
    /\ args.gs.confidence = ConfidenceOne
    /\ returned.switchedAt = 13
    /\ returned.ticks = MaxSustainTicks
    /\ returned.gs.active = args.label

(***************************************************************************)
(* C33: whenever a call of commitGestureState changes gestureState.active, *)
(* the new active label is the label of that very call, also when every    *)
(* earlier call that lowered the confidence carried another label.         *)
(***************************************************************************)
C33_Switched == returned.ticks > 0 /\ returned.gs.active # returned.before.active

C33_ExitTickLabelIsCommitted == C33_Switched => returned.gs.active = returned.label

C33_Witness ==
    /\ C33_Switched
    /\ returned.gs.active = FingersLabel(3)
    /\ returned.earlier = {FingersLabel(2), FingersLabel(4)}

(***************************************************************************)
(* C34: a detection tick that sees at least one hand drops no filter and   *)
(* (when it computes the finger forces) no fingertip history entry, and    *)
(* leaves the entries of a hand slot that is absent as they were.  So when *)
(* the second hand is back after ticks with one hand, its filtered value   *)
(* is the old slot-1 filter applied to the new raw value, and its velocity *)
(* term is measured from the tip position the earlier second hand left.    *)
(***************************************************************************)
C34_Slot1 == <<1, TipIndex, "x">>

C34_Kept(old, new, hands) ==
    \A key \in DOMAIN old : key \in DOMAIN new /\ (key[1] >= hands => new[key] = old[key])

C34_Tick ==
    LET hands == handsSeen'
    IN  (filterClock' # filterClock /\ hands >= 1) =>
            /\ C34_Kept(landmarkFilterBank, landmarkFilterBank', hands)
            /\ gestureDetectionEnabled =>
                    C34_Kept(fingerVelocityHistory, fingerVelocityHistory', hands)
            /\ (hands = 2 /\ C34_Slot1 \in DOMAIN landmarkFilterBank) =>
                    /\ ~filterFresh'[C34_Slot1]
                    /\ filterOut'[C34_Slot1] =
                           OneEuroFilter(landmarkFilterBank[C34_Slot1], filterIn'[C34_Slot1],
                                         filterClock').out
            /\ (hands = 2 /\ gestureDetectionEnabled
                          /\ <<1, TipIndex>> \in DOMAIN fingerVelocityHistory) =>
                    /\ 1 \in DOMAIN fingerForce'.velocity
                    /\ fingerForce'.velocity[1] =
                           FlDiv(FlSub(filterOut'[C34_Slot1], fingerVelocityHistory[<<1, TipIndex>>]),
                                 Ratio(filterClock' - filterClock, 1000))

C35_Replies(id) == {k \in 1 .. Len(worker.posted) : worker.posted[k].id = id}

C35_Ids == 1 .. Len(worker.requests)

C35_KnownTypes == {"init", "detect", "reset", "dispose"}

C35_TypeRule(id, reply) ==
    LET request == worker.requests[id]
    IN  /\ reply.type \in {request.type, request.type \o "-error"}
        /\ request.type \notin C35_KnownTypes => reply.type = request.type \o "-error"
        /\ (request.type = "detect" /\ ~request.detector) => reply.type = "detect-error"

C35_EveryMessageAnsweredOnce ==
    \A id \in C35_Ids :
        worker.requests[id].status # "awaiting" =>
            /\ Cardinality(C35_Replies(id)) = 1
            /\ \A k \in C35_Replies(id) : C35_TypeRule(id, worker.posted[k])

(***************************************************************************)
(* C35, as the code has it.  A message never has more than one reply, and  *)
(* a reply follows the type rule above.  A message whose listener ran to   *)
(* its end has exactly one reply.  'dispose' closes the worker: a message  *)
(* received after it, whatever its type, and a listener still awaiting     *)
(* when the worker's tasks are discarded have no reply at all.             *)
(***************************************************************************)
C35_AfterDispose(id) == \E j \in 1 .. id - 1 : worker.requests[j].type = "dispose"

C35_AnsweredUntilDispose ==
    \A id \in C35_Ids :
        /\ Cardinality(C35_Replies(id)) <= 1
        /\ \A k \in C35_Replies(id) : C35_TypeRule(id, worker.posted[k])
        /\ worker.requests[id].status = "done" => Cardinality(C35_Replies(id)) = 1
        /\ worker.requests[id].status = "discarded" => C35_Replies(id) = {}
        /\ C35_AfterDispose(id) => worker.requests[id].status = "discarded"
        /\ (worker.requests[id].status = "awaiting" /\ ~worker.closed) => C35_Replies(id) = {}

C35_Witness ==
    /\ Len(worker.requests) = 4
    /\ worker.requests[1].type = "detect" /\ worker.posted[1] = ErrorReply(1, "detect")
    /\ worker.requests[2].type = "ping" /\ worker.posted[2] = ErrorReply(2, "ping")
    /\ worker.requests[3].type = "dispose" /\ worker.posted[3] = Reply(3, "dispose", "")
    /\ worker.requests[4].type = "detect" /\ worker.requests[4].status = "discarded"
    /\ Len(worker.posted) = 3

(***************************************************************************)
(* C36.  Once no model load is pending and the worker has not been         *)
(* disposed, every 'init' reply posted reports loaded = true exactly when  *)
(* the detector's model is loaded, and detector.useAI says the same; a     *)
(* disposed detector never has useAI set.                                  *)
(***************************************************************************)
C36_ModelLoaded == worker.detector.load = "loaded" /\ ~worker.detector.disposed

C36_InitReplyMatchesLoadState ==
    /\ (worker.detector.load # "pending" /\ ~worker.closed) =>
           /\ worker.detector.useAI = C36_ModelLoaded
           /\ \A k \in 1 .. Len(worker.posted) :
                  worker.posted[k].type = "init"
                      => worker.posted[k].loaded = BoolText(C36_ModelLoaded)
    /\ worker.detector.disposed => ~worker.detector.useAI

(***************************************************************************)
(* C37.  At most one requestAnimationFrame(detectHands) callback is        *)
(* pending at any time, and every detectHands invocation requests exactly  *)
(* one.                                                                    *)
(***************************************************************************)
C37_SingleDetectLoop ==
    /\ camera.loops <= 1
    /\ camera.scheduled \in {-1, 1}

(***************************************************************************)
(* C38: after every detection tick smoothedExpansion lies in [0, 1] and    *)
(* smoothedExplosion lies in [0, 1.5].                                     *)
(***************************************************************************)
C38_In(x, lo, hi) == ~Below(x, lo) /\ ~Below(hi, x)

C38_ChannelsInRange ==
    /\ C38_In(smoothed.smoothedExpansion, FlZero, FlOne)
    /\ C38_In(smoothed.smoothedExplosion, FlZero, Ratio(3, 2))

C38_Witness ==
    /\ lastTick.kind = "rotate"
    /\ Below(FlOne, smoothed.smoothedExplosion)
    /\ smoothed.smoothedExpansion = FlOne

(***************************************************************************)
(* C39: every getHandScale call of a detection tick returns the scale of   *)
(* the hand passed on that tick, before and after frameId has wrapped      *)
(* around, and the memo never holds more than 10 entries.                  *)
(***************************************************************************)
C39_MemoServesCurrentHand ==
    /\ memoCache.served # 0 => memoCache.served = TwiceHandScale(MemoHands[memoCache.hand])
    /\ memoCache.again # 0 => memoCache.again = TwiceHandScale(MemoHands[memoCache.hand])
    /\ Len(memoCache.handScale) <= 10

C39_Witness ==
    /\ memoCache.wrapped
    /\ memoCache.frameId = 15
    /\ memoCache.hand = 2
    /\ memoCache.again = TwiceHandScale(MemoHands[2])
    /\ Len(memoCache.handScale) = 10
====
